---- MODULE Spec2Model ----
(***************************************************************************)
(* Selective PDF extraction (SelectivePDFParser): one extraction request   *)
(* over one document, from the strategy choice of extractTextFromPDF to    *)
(* the returned text.                                                      *)
(*                                                                         *)
(* A document is the record pdf: numPages, the per-page result of          *)
(* extractPageWithStructure (null or a content of some length, with the    *)
(* pattern-matching header titles found on it), the per-page value of      *)
(* calculateEnhancedRelevance for the request's terms, and the native      *)
(* outline.  Relevance is counted in hundredths: 1 is 0.01, 100 is 1.0.    *)
(* The returned text is the sequence of its blocks: section title lines,   *)
(* page blocks and the truncation notice.                                  *)
(***************************************************************************)
EXTENDS Integers, Sequences, FiniteSets, TLC

VARIABLES pdf, options, pc, calls, args, keySections, processedPages,
          pageNum, pages, charCount, stopped, out,
          dirs, files, todo, proc, log, faultsLeft, projectCache,
          optionsString, embedOptions,
          string1, string2, matched, measured,
          textItems, textSections,
          contextNotes, adders, activeNote, includeActiveNote

(* the state of the file-parsing facade and its caches: the directories and
   the blobs of the vault adapter, the calls each client still has to make,
   the call each client is in, the calls that returned, the I/O failures the
   adapter may still raise, and the per-project cache *)
facade == <<dirs, files, todo, proc, log, faultsLeft, projectCache>>

(* the state of one parseEmbedOptions call: the text after the "|" of an
   embed and the options object it gives *)
embed == <<optionsString, embedOptions>>

(* the state of one call of the string comparison: the two strings, and the
   results of fuzzyMatch and of levenshteinDistance once they have run (the
   empty set before) *)
strings == <<string1, string2, matched, measured>>

(* the state of one parseTextStructure call: the text items of a page, and
   the sections made of them once it has run (the empty set before) *)
structure == <<textItems, textSections>>

(* the state of the chat context: the contextNotes of the component, the
   addNoteToContext calls under way, the active note and the
   includeActiveNote flag *)
context == <<contextNotes, adders, activeNote, includeActiveNote>>

(* what an extraction request and the facade leave alone *)
aside == <<embed, strings, structure, context>>

(* the state of one extraction request of SelectivePDFParser *)
extraction == <<pdf, options, pc, calls, args, keySections, processedPages,
                pageNum, pages, charCount, stopped, out>>

vars == <<pdf, options, pc, calls, args, keySections, processedPages,
          pageNum, pages, charCount, stopped, out, facade, embed, strings,
          structure, context>>

----------------------------------------------------------------------------
(* Bounds of the model *)
MaxNumPages == 4
MaxPageLen == 2
MaxOptPages == 3
MaxOptChars == 3
MaxScore == 2
MaxOutline == 2
MaxSize == 2
MaxMtime == 2
MaxFaults == 1
MaxParts == 2
MaxStringLen == 3
MaxItems == 3
MaxContextNotes == 3

(* Program constants *)
DEFAULT_MAX_PAGES == 50
DEFAULT_MAX_CHARACTERS == 100000
DEFAULT_CONTEXT_WINDOW == 2
DEFAULT_MIN_RELEVANCE == 1
RELEVANCE_ONE == 100
FALLBACK_MAX_PAGES == 20
CHAPTER_LENGTH == 10
FUZZY_THRESHOLD_TENTHS == 6
MAX_SAMPLE_PAGES == 20
MAX_SCAN_PAGES == 50
BYTES_PER_MB == 1024 * 1024
LARGE_FILE_MB == 50
LARGE_FILE_MAX_PAGES == 20
LARGE_FILE_MAX_CHARACTERS == 50000
MEDIUM_FILE_MB == 10
MEDIUM_FILE_MAX_PAGES == 50
MEDIUM_FILE_MAX_CHARACTERS == 100000
FOOTER_Y == 50
NEW_SECTION_Y_GAP == 20
NEW_SECTION_X_GAP == 50

----------------------------------------------------------------------------
(* JavaScript helpers *)
Min(a, b) == IF a < b THEN a ELSE b
Max(a, b) == IF a > b THEN a ELSE b

NoOptions == [k \in {} |-> 0]
Has(o, k) == k \in DOMAIN o

(* o.k || d : an absent key and the number 0 are both falsy *)
OrDefault(o, k, d) == IF Has(o, k) /\ o[k] # 0 THEN o[k] ELSE d

(* o.k?.length : truthy for a present, non-empty array *)
NonEmptyList(o, k) == Has(o, k) /\ Len(o[k]) > 0

RECURSIVE SeqSum(_)
SeqSum(s) == IF s = <<>> THEN 0 ELSE Head(s) + SeqSum(Tail(s))

RECURSIVE Flatten(_)
Flatten(ss) == IF ss = <<>> THEN <<>> ELSE Head(ss) \o Flatten(Tail(ss))

(* the ascending sequence of the integers of a finite set *)
RECURSIVE SortAsc(_)
SortAsc(S) ==
  IF S = {} THEN <<>>
  ELSE LET m == CHOOSE x \in S : \A y \in S : x <= y
       IN <<m>> \o SortAsc(S \ {m})

(* Array.prototype.slice(0, n) *)
Slice0(s, n) == IF n <= 0 THEN <<>> ELSE SubSeq(s, 1, Min(n, Len(s)))

Range(s) == {s[i] : i \in DOMAIN s}

----------------------------------------------------------------------------
(* Strings are sequences of one-character strings. *)
LowerOf(c) ==
  CASE c = "A" -> "a"
    [] c = "B" -> "b"
    [] c = "C" -> "c"
    [] c = "O" -> "o"
    [] OTHER -> c

ToLowerCase(s) == [i \in DOMAIN s |-> LowerOf(s[i])]

RECURSIVE TrimStart(_)
TrimStart(s) ==
  IF s # <<>> /\ Head(s) = " " THEN TrimStart(Tail(s)) ELSE s

RECURSIVE TrimEnd(_)
TrimEnd(s) ==
  IF s # <<>> /\ s[Len(s)] = " " THEN TrimEnd(SubSeq(s, 1, Len(s) - 1)) ELSE s

Trim(s) == TrimEnd(TrimStart(s))

(* String.prototype.includes *)
Includes(s, t) ==
  \E i \in 0..(Len(s) - Len(t)) : SubSeq(s, i + 1, i + Len(t)) = t

(* The matrix of levenshteinDistance, filled row by row: matrix[j][i] is the
   distance between the first i characters of str1 and the first j of str2.
   A row is the sequence of its cells, matrix[j][i] at place i + 1. *)
RECURSIVE LevRow(_, _, _, _)
LevRow(row, prev, str1, char2) ==
  LET i == Len(row)
  IN IF i > Len(str1) THEN row
     ELSE LET substitutionCost == IF str1[i] = char2 THEN 0 ELSE 1
          IN LevRow(Append(row, Min(Min(row[i] + 1, prev[i + 1] + 1),
                                    prev[i] + substitutionCost)),
                    prev, str1, char2)

RECURSIVE LevMatrix(_, _, _)
LevMatrix(str1, str2, j) ==
  IF j = 0 THEN [k \in 1..(Len(str1) + 1) |-> k - 1]
  ELSE LevRow(<<j>>, LevMatrix(str1, str2, j - 1), str1, str2[j])

(* a variant that returns the cell in the row before the last *)
levenshteinDistanceRowBefore(str1, str2) ==
  IF str2 = <<>> THEN Len(str1)
  ELSE LevMatrix(str1, str2, Len(str2) - 1)[Len(str1) + 1]

levenshteinDistance(str1, str2) ==
  LevMatrix(str1, str2, Len(str2))[Len(str1) + 1]

(* a variant that asks for a similarity above the threshold *)
fuzzyMatchAbove(text1, text2) ==
  LET t1 == Trim(ToLowerCase(text1))
      t2 == Trim(ToLowerCase(text2))
      maxLen == Max(Len(t1), Len(t2))
      distance == levenshteinDistance(t1, t2)
  IN IF Includes(t1, t2) \/ Includes(t2, t1) THEN TRUE
     ELSE 10 * (maxLen - distance) > FUZZY_THRESHOLD_TENTHS * maxLen

(* similarity = 1 - distance / maxLen >= 0.6, in tenths; the division by a
   zero maxLen is never reached, since two empty strings contain each other *)
fuzzyMatch(text1, text2) ==
  LET t1 == Trim(ToLowerCase(text1))
      t2 == Trim(ToLowerCase(text2))
      maxLen == Max(Len(t1), Len(t2))
      distance == levenshteinDistance(t1, t2)
  IN IF Includes(t1, t2) \/ Includes(t2, t1) THEN TRUE
     ELSE 10 * (maxLen - distance) >= FUZZY_THRESHOLD_TENTHS * maxLen

----------------------------------------------------------------------------
(* Pages *)

(* extractPageWithStructure: null (FALSE here) when getPage or the text
   extraction throws, which it does for a page number outside the document *)
PageParses(doc, n) == n \in 1..doc.numPages /\ doc.page[n].ok

PageContent(doc, n, relevance) ==
  [pageNum |-> n, len |-> doc.page[n].len, relevance |-> relevance]

extractPagesWithStructure(doc, startPage, endPage) ==
  LET nums == SortAsc({n \in startPage..endPage : PageParses(doc, n)})
  IN [i \in DOMAIN nums |-> PageContent(doc, nums[i], RELEVANCE_ONE)]

(* Blocks of the returned text *)
PageBlock(page) ==
  [type |-> "page", pageNum |-> page.pageNum, len |-> page.len,
   relevance |-> page.relevance,
   annotated |-> page.relevance < RELEVANCE_ONE, title |-> <<>>]

SectionBlock(title) ==
  [type |-> "section", pageNum |-> 0, len |-> 0, relevance |-> 0,
   annotated |-> FALSE, title |-> title]

NoticeBlock(maxChars, total) ==
  [type |-> "notice", pageNum |-> total, len |-> maxChars, relevance |-> 0,
   annotated |-> FALSE, title |-> <<>>]

formatExtractedContent(ps) == [i \in DOMAIN ps |-> PageBlock(ps[i])]

PageBlocks(text) == SelectSeq(text, LAMBDA b : b.type = "page")
PageNums(text) == [i \in DOMAIN PageBlocks(text) |-> PageBlocks(text)[i].pageNum]

----------------------------------------------------------------------------
(* Search strategy *)

(* First pass of extractByIntelligentSearch: the pages that parse and whose
   relevance reaches minRelevance, in page order *)
RelevantPages(doc, minRelevance) ==
  LET nums == SortAsc({n \in 1..doc.numPages :
                         PageParses(doc, n) /\ doc.page[n].relevance >= minRelevance})
  IN [i \in DOMAIN nums |-> PageContent(doc, nums[i], doc.page[nums[i]].relevance)]

(* Array.prototype.sort((a, b) => b.relevance - a.relevance): a stable sort,
   by insertion behind every element of at least the same relevance *)
RECURSIVE SortByRelevance(_)
SortByRelevance(ps) ==
  IF ps = <<>> THEN <<>>
  ELSE LET last == ps[Len(ps)]
           rest == SortByRelevance(SubSeq(ps, 1, Len(ps) - 1))
           before == SelectSeq(rest, LAMBDA q : q.relevance >= last.relevance)
           after == SelectSeq(rest, LAMBDA q : q.relevance < last.relevance)
       IN before \o <<last>> \o after

(* Array.prototype.sort((a, b) => a.pageNum - b.pageNum), stable likewise *)
RECURSIVE SortByPageNum(_)
SortByPageNum(ps) ==
  IF ps = <<>> THEN <<>>
  ELSE LET last == ps[Len(ps)]
           rest == SortByPageNum(SubSeq(ps, 1, Len(ps) - 1))
           before == SelectSeq(rest, LAMBDA q : q.pageNum <= last.pageNum)
           after == SelectSeq(rest, LAMBDA q : q.pageNum > last.pageNum)
       IN before \o <<last>> \o after

(* Array.prototype.find: the first element of pageAnalysis on that page *)
FindPage(pageAnalysis, n) ==
  LET hits == SelectSeq(pageAnalysis, LAMBDA q : q.pageNum = n)
  IN IF hits = <<>> THEN <<>> ELSE <<Head(hits)>>

(* a variant that does not cut the expanded selection back to maxPages *)
selectPagesWithContextNoCap(pageAnalysis, maxPages, contextWindow) ==
  LET topPages == Slice0(pageAnalysis, Min(maxPages, Len(pageAnalysis)))
      selected == UNION {{topPages[k].pageNum}
                           \cup {topPages[k].pageNum - i : i \in 1..contextWindow}
                           \cup {topPages[k].pageNum + i : i \in 1..contextWindow}
                         : k \in DOMAIN topPages}
      allPageNums == SortAsc({num \in selected : num > 0})
      result == Flatten([k \in DOMAIN allPageNums |->
                           FindPage(pageAnalysis, allPageNums[k])])
  IN SortByPageNum(result)

selectPagesWithContext(pageAnalysis, maxPages, contextWindow) ==
  LET topPages == Slice0(pageAnalysis, Min(maxPages, Len(pageAnalysis)))
      selected == UNION {{topPages[k].pageNum}
                           \cup {topPages[k].pageNum - i : i \in 1..contextWindow}
                           \cup {topPages[k].pageNum + i : i \in 1..contextWindow}
                         : k \in DOMAIN topPages}
      allPageNums == SortAsc({num \in selected : num > 0})
      kept == Slice0(allPageNums, maxPages)
      result == Flatten([k \in DOMAIN kept |-> FindPage(pageAnalysis, kept[k])])
  IN SortByPageNum(result)

SearchPageAnalysis(doc, opts) ==
  SortByRelevance(
    RelevantPages(doc, OrDefault(opts, "minRelevanceScore", DEFAULT_MIN_RELEVANCE)))

extractByIntelligentSearch(doc, opts) ==
  LET maxPages == OrDefault(opts, "maxPages", DEFAULT_MAX_PAGES)
      contextWindow == OrDefault(opts, "contextWindow", DEFAULT_CONTEXT_WINDOW)
      pageAnalysis == SearchPageAnalysis(doc, opts)
      selectedPages == selectPagesWithContext(pageAnalysis, maxPages, contextWindow)
  IN formatExtractedContent(selectedPages)

----------------------------------------------------------------------------
(* Explicit page range *)
(* a variant that treats the end of the range as exclusive *)
extractByPageRangeExclusiveEnd(doc, pageRange) ==
  LET actualEnd == Min(pageRange.end, doc.numPages) - 1
      actualStart == Max(1, pageRange.start)
  IN formatExtractedContent(extractPagesWithStructure(doc, actualStart, actualEnd))

extractByPageRange(doc, pageRange) ==
  LET actualEnd == Min(pageRange.end, doc.numPages)
      actualStart == Max(1, pageRange.start)
  IN formatExtractedContent(extractPagesWithStructure(doc, actualStart, actualEnd))

----------------------------------------------------------------------------
(* Outline and chapters *)

(* getPageFromDest: destination 0 stands for one that is no array or that
   getPageIndex rejects; page 1 is returned for it *)
getPageFromDest(dest) == IF dest = 0 THEN 1 ELSE dest

PDFSection(title, startPage, endPage) ==
  [title |-> title, startPage |-> startPage, endPage |-> endPage]

(* an absent outline (null, or getOutline throwing) is the empty outline *)
extractEnhancedOutline(doc) ==
  [i \in DOMAIN doc.outline |->
     PDFSection(doc.outline[i].title,
                getPageFromDest(doc.outline[i].dest),
                IF i < Len(doc.outline)
                  THEN getPageFromDest(doc.outline[i + 1].dest) - 1
                  ELSE doc.numPages)]

(* the headers of the parsed pages 1..last, in document order, each with its
   page number *)
RECURSIVE HeadersUpTo(_, _)
HeadersUpTo(doc, last) ==
  IF last <= 0 THEN <<>>
  ELSE HeadersUpTo(doc, last - 1) \o
       (IF PageParses(doc, last)
          THEN [h \in DOMAIN doc.page[last].headers |->
                  [content |-> doc.page[last].headers[h].content,
                   pattern |-> doc.page[last].headers[h].pattern,
                   pageNum |-> last]]
          ELSE <<>>)

detectSectionsFromText(doc) ==
  LET maxSamplePages == Min(MAX_SAMPLE_PAGES, doc.numPages)
      hs == SelectSeq(HeadersUpTo(doc, maxSamplePages), LAMBDA h : h.pattern)
  IN [i \in DOMAIN hs |->
        PDFSection(hs[i].content, hs[i].pageNum,
                   IF i < Len(hs) THEN hs[i + 1].pageNum - 1 ELSE doc.numPages)]

(* one section per (header, requested chapter) pair that matches *)
detectChaptersInText(doc, chapters) ==
  LET maxScanPages == Min(MAX_SCAN_PAGES, doc.numPages)
      hs == HeadersUpTo(doc, maxScanPages)
      ForHeader(h) ==
        LET cs == SelectSeq(chapters, LAMBDA c : fuzzyMatch(h.content, c))
        IN [k \in DOMAIN cs |->
              PDFSection(h.content, h.pageNum, h.pageNum + CHAPTER_LENGTH)]
  IN Flatten([i \in DOMAIN hs |-> ForHeader(hs[i])])

MatchingChapters(doc, chapters) ==
  SelectSeq(extractEnhancedOutline(doc),
            LAMBDA section :
              \E k \in DOMAIN chapters :
                \/ fuzzyMatch(section.title, chapters[k])
                \/ Includes(ToLowerCase(section.title), ToLowerCase(chapters[k])))

extractChapterContent(doc, chapters) ==
  Flatten([i \in DOMAIN chapters |->
             <<SectionBlock(chapters[i].title)>> \o
             formatExtractedContent(
               extractPagesWithStructure(doc, chapters[i].startPage,
                                         chapters[i].endPage))])

(* identifyKeySections on the structure of analyzeDocumentStructure *)
identifyKeySections(doc) ==
  LET hasOutline == Len(extractEnhancedOutline(doc)) > 0
  IN IF hasOutline THEN extractEnhancedOutline(doc)
     ELSE detectSectionsFromText(doc)

----------------------------------------------------------------------------
(* Full-text parser (LocalPDFParser) *)

(* "\n\n--- Page N ---\n" followed by the text of the page *)
LocalPageBlock(n, len) ==
  [type |-> "localPage", pageNum |-> n, len |-> len, relevance |-> 0,
   annotated |-> FALSE, title |-> <<>>]

(* "\n\n--- Page N ---\n[Error: Could not extract text from this page]" *)
PageErrorBlock(n) ==
  [type |-> "pageError", pageNum |-> n, len |-> 0, relevance |-> 0,
   annotated |-> FALSE, title |-> <<>>]

(* "[No text content found in PDF - may be image-based or encrypted]" *)
NoTextBlock ==
  [type |-> "noText", pageNum |-> 0, len |-> 0, relevance |-> 0,
   annotated |-> FALSE, title |-> <<>>]

(* a variant of the loop that leaves a page that throws out of the text *)
RECURSIVE LocalFullTextSkip(_, _)
LocalFullTextSkip(doc, last) ==
  IF last <= 0 THEN <<>>
  ELSE LocalFullTextSkip(doc, last - 1) \o
       (IF doc.page[last].ok /\ doc.page[last].len > 0
          THEN <<LocalPageBlock(last, doc.page[last].len)>>
          ELSE <<>>)

(* fullText after the pages 1..last: a page that throws leaves the error
   line, a page without text leaves nothing *)
RECURSIVE LocalFullText(_, _)
LocalFullText(doc, last) ==
  IF last <= 0 THEN <<>>
  ELSE LocalFullText(doc, last - 1) \o
       (IF ~doc.page[last].ok THEN <<PageErrorBlock(last)>>
        ELSE IF doc.page[last].len > 0
          THEN <<LocalPageBlock(last, doc.page[last].len)>>
        ELSE <<>>)

(* LocalPDFParser.extractTextFromPDF on a document that opens *)
LocalExtractText(doc) ==
  IF LocalFullText(doc, doc.numPages) # <<>>
    THEN LocalFullText(doc, doc.numPages)
    ELSE <<NoTextBlock>>

----------------------------------------------------------------------------
(* The request *)

(* a search-first variant of the strategy choice *)
ChooseStrategySearchFirst(opts) ==
  IF NonEmptyList(opts, "searchTerms") THEN "search"
  ELSE IF NonEmptyList(opts, "chapters") THEN "chapters"
  ELSE IF Has(opts, "pageRange") THEN "pageRange"
  ELSE "smart"

ChooseStrategy(opts) ==
  IF NonEmptyList(opts, "chapters") THEN "chapters"
  ELSE IF NonEmptyList(opts, "searchTerms") THEN "search"
  ELSE IF Has(opts, "pageRange") THEN "pageRange"
  ELSE "smart"

(* extractTextFromPDF: the document is open; pick the strategy *)
ExtractTextFromPDF ==
  /\ pc = "start"
  /\ pc' = ChooseStrategy(options)
  /\ calls' = <<ChooseStrategy(options)>>
  /\ args' = options
  /\ UNCHANGED <<facade, aside, pdf, options, keySections, processedPages, pageNum, pages,
                 charCount, stopped, out>>

(* a variant that goes from the outline straight to the search *)
ExtractByChaptersNoScan ==
  /\ pc = "chapters"
  /\ LET matchingChapters == MatchingChapters(pdf, args.chapters)
     IN IF Len(matchingChapters) > 0
          THEN /\ out' = extractChapterContent(pdf, matchingChapters)
               /\ pc' = "done"
               /\ UNCHANGED <<args, calls>>
          ELSE /\ out' = out
               /\ pc' = "search"
               /\ args' = ("maxPages" :> FALLBACK_MAX_PAGES) @@ args
               /\ calls' = Append(calls, "search")
  /\ UNCHANGED <<facade, aside, pdf, options, keySections, processedPages,
                 pageNum, pages, charCount, stopped>>

(* extractByChapters: outline match, else chapter detection in the text,
   else the search strategy with { ...options, maxPages: 20 } *)
ExtractByChapters ==
  /\ pc = "chapters"
  /\ LET matchingChapters == MatchingChapters(pdf, args.chapters)
         detectedChapters == detectChaptersInText(pdf, args.chapters)
     IN IF Len(matchingChapters) > 0
          THEN /\ out' = extractChapterContent(pdf, matchingChapters)
               /\ pc' = "done"
               /\ UNCHANGED <<args, calls>>
          ELSE IF Len(detectedChapters) > 0
            THEN /\ out' = extractChapterContent(pdf, detectedChapters)
                 /\ pc' = "done"
                 /\ UNCHANGED <<args, calls>>
            ELSE /\ out' = out
                 /\ pc' = "search"
                 /\ args' = ("maxPages" :> FALLBACK_MAX_PAGES) @@ args
                 /\ calls' = Append(calls, "search")
  /\ UNCHANGED <<facade, aside, pdf, options, keySections, processedPages, pageNum,
                 pages, charCount, stopped>>

ExtractByIntelligentSearch ==
  /\ pc = "search"
  /\ out' = extractByIntelligentSearch(pdf, args)
  /\ pc' = "done"
  /\ UNCHANGED <<facade, aside, pdf, options, calls, args, keySections, processedPages,
                 pageNum, pages, charCount, stopped>>

ExtractByPageRange ==
  /\ pc = "pageRange"
  /\ out' = extractByPageRange(pdf, args.pageRange)
  /\ pc' = "done"
  /\ UNCHANGED <<facade, aside, pdf, options, calls, args, keySections, processedPages,
                 pageNum, pages, charCount, stopped>>

(* intelligentExtraction: by sections when there are key sections, else
   sequentially within the limits *)
IntelligentExtraction ==
  /\ pc = "smart"
  /\ keySections' = identifyKeySections(pdf)
  /\ IF Len(identifyKeySections(pdf)) > 0
       THEN pc' = "sections" /\ pageNum' = pageNum
       ELSE pc' = "limits" /\ pageNum' = 1
  /\ calls' = Append(calls, pc')
  /\ UNCHANGED <<facade, aside, pdf, options, args, processedPages, pages,
                 charCount, stopped, out>>

SectionsMaxPages == OrDefault(args, "maxPages", DEFAULT_MAX_PAGES)

(* extractByIntelligentSections: one iteration of the loop over sections *)
SectionsStep ==
  /\ pc = "sections"
  /\ keySections # <<>>
  /\ processedPages < SectionsMaxPages
  /\ LET section == Head(keySections)
         sectionPages == section.endPage - section.startPage + 1
         pagesToProcess == Min(sectionPages, SectionsMaxPages - processedPages)
         sectionContent ==
           extractPagesWithStructure(pdf, section.startPage,
                                     section.startPage + pagesToProcess - 1)
     IN /\ out' = out \o <<SectionBlock(section.title)>>
                      \o formatExtractedContent(sectionContent)
        /\ processedPages' = processedPages + pagesToProcess
  /\ keySections' = Tail(keySections)
  /\ UNCHANGED <<facade, aside, pdf, options, pc, calls, args, pageNum, pages, charCount,
                 stopped>>

SectionsReturn ==
  /\ pc = "sections"
  /\ keySections = <<>> \/ processedPages >= SectionsMaxPages
  /\ pc' = "done"
  /\ UNCHANGED <<facade, aside, pdf, options, calls, args, keySections, processedPages,
                 pageNum, pages, charCount, stopped, out>>

LimitsMaxPages == OrDefault(args, "maxPages", DEFAULT_MAX_PAGES)
LimitsMaxChars == OrDefault(args, "maxCharacters", DEFAULT_MAX_CHARACTERS)
ActualMaxPages == Min(LimitsMaxPages, pdf.numPages)

(* a variant of the loop body that tests the budget only after the page has
   been added *)
LimitsStepLateCheck ==
  /\ pc = "limits"
  /\ ~stopped
  /\ pageNum <= ActualMaxPages
  /\ IF ~PageParses(pdf, pageNum)
       THEN /\ pageNum' = pageNum + 1
            /\ UNCHANGED <<pages, charCount, stopped>>
       ELSE IF charCount > LimitsMaxChars
         THEN /\ stopped' = TRUE
              /\ UNCHANGED <<pageNum, pages, charCount>>
         ELSE /\ pages' = Append(pages, PageContent(pdf, pageNum, RELEVANCE_ONE))
              /\ charCount' = charCount + pdf.page[pageNum].len
              /\ pageNum' = pageNum + 1
              /\ stopped' = stopped
  /\ UNCHANGED <<facade, aside, pdf, options, pc, calls, args, keySections, processedPages,
                 out>>

(* extractWithIntelligentLimits: one iteration of the loop over pages *)
LimitsStep ==
  /\ pc = "limits"
  /\ ~stopped
  /\ pageNum <= ActualMaxPages
  /\ IF ~PageParses(pdf, pageNum)
       THEN /\ pageNum' = pageNum + 1
            /\ UNCHANGED <<pages, charCount, stopped>>
       ELSE IF charCount + pdf.page[pageNum].len > LimitsMaxChars
         THEN /\ stopped' = TRUE
              /\ UNCHANGED <<pageNum, pages, charCount>>
         ELSE /\ pages' = Append(pages, PageContent(pdf, pageNum, RELEVANCE_ONE))
              /\ charCount' = charCount + pdf.page[pageNum].len
              /\ pageNum' = pageNum + 1
              /\ stopped' = stopped
  /\ UNCHANGED <<facade, aside, pdf, options, pc, calls, args, keySections, processedPages,
                 out>>

LimitsReturn ==
  /\ pc = "limits"
  /\ stopped \/ pageNum > ActualMaxPages
  /\ out' = formatExtractedContent(pages) \o
            (IF charCount >= LimitsMaxChars
               THEN <<NoticeBlock(LimitsMaxChars, pdf.numPages)>>
               ELSE <<>>)
  /\ pc' = "done"
  /\ UNCHANGED <<facade, aside, pdf, options, calls, args, keySections, processedPages,
                 pageNum, pages, charCount, stopped>>

(* LocalPDFParser.extractTextFromPDF, the whole call *)
LocalExtractTextFromPDF ==
  /\ pc = "local"
  /\ calls' = <<"local">>
  /\ out' = LocalExtractText(pdf)
  /\ pc' = "done"
  /\ UNCHANGED <<facade, aside, pdf, options, args, keySections,
                 processedPages, pageNum, pages, charCount, stopped>>

Next ==
  \/ ExtractTextFromPDF
  \/ ExtractByChapters
  \/ ExtractByIntelligentSearch
  \/ ExtractByPageRange
  \/ IntelligentExtraction
  \/ SectionsStep
  \/ SectionsReturn
  \/ LimitsStep
  \/ LimitsReturn

----------------------------------------------------------------------------
(* Values, JSON text and the vault adapter *)

(* JavaScript values: every value is a record of its kind and its content *)
Null == [kind |-> "null", val |-> 0]
Undefined == [kind |-> "undefined", val |-> 0]
NaN == [kind |-> "NaN", val |-> 0]
Num(n) == [kind |-> "number", val |-> n]
Str(s) == [kind |-> "string", val |-> s]
Arr(seq) == [kind |-> "array", val |-> seq]
Obj(fields) == [kind |-> "object", val |-> fields]

(* JSON.stringify then JSON.parse of a value: NaN becomes null, undefined
   becomes null inside an array and takes its key away inside an object *)
RECURSIVE ToJSON(_)
ToJSON(v) ==
  CASE v.kind = "NaN" -> Null
    [] v.kind = "array" ->
         Arr([i \in DOMAIN v.val |->
                IF v.val[i].kind = "undefined" THEN Null ELSE ToJSON(v.val[i])])
    [] v.kind = "object" ->
         Obj([k \in {j \in DOMAIN v.val : v.val[j].kind # "undefined"} |->
                ToJSON(v.val[k])])
    [] OTHER -> v

(* the text JSON.stringify writes, and the value JSON.parse reads from it *)
JSONstringify(v) == [kind |-> "json", val |-> ToJSON(v)]
JSONparse(text) == text.val

(* a file of the vault: its path as folder names and file name, the file
   name without its extension, its stat, and whether pdf.js can open its
   bytes *)
TFile(path, basename, size, mtime, opens) ==
  [path |-> path, basename |-> basename, size |-> size, mtime |-> mtime,
   opens |-> opens]

(* `${file.path}:${file.stat.size}:${file.stat.mtime}`: the path is what is
   left of the last two ":", both followed by digits only, so the string
   says what the three parts are *)
Metadata(file) == [path |-> file.path, size |-> file.size, mtime |-> file.mtime]

(* Object.keys(options).length === 0, or no options at all *)
NoKeys(opts) == opts = Undefined \/ DOMAIN opts.val = {}

(* PDFCache.getCacheKey: the MD5 digest of the metadata, 32 hex digits *)
getCacheKey(file) ==
  [hashed |-> TRUE, metadata |-> Metadata(file), optionsKey |-> Null]

(* a key that leaves the size of the file out *)
getCacheKeyWithOptionsNoSize(file, opts) ==
  [hashed |-> FALSE, metadata |-> [Metadata(file) EXCEPT !.size = 0],
   optionsKey |-> IF NoKeys(opts) THEN Null ELSE JSONstringify(opts)]

(* PDFParser.getCacheKeyWithOptions: the metadata string itself, followed by
   ":" and the JSON text of the options when there are any; the JSON text of
   an object starts at the only "{" of the key that closes at its end *)
getCacheKeyWithOptions(file, opts) ==
  [hashed |-> FALSE, metadata |-> Metadata(file),
   optionsKey |-> IF NoKeys(opts) THEN Null ELSE JSONstringify(opts)]

cacheDir == <<".copilot", "pdf-cache">>

(* PDFCache.getCachePath: `${cacheDir}/${cacheKey}.json`; every "/" of the
   key is one more folder between the cache directory and the blob *)
KeyFolders(cacheKey) ==
  IF cacheKey.hashed THEN <<>>
  ELSE SubSeq(cacheKey.metadata.path, 1, Len(cacheKey.metadata.path) - 1)
getCachePath(cacheKey) ==
  [folder |-> cacheDir \o KeyFolders(cacheKey), name |-> cacheKey]

(* adapter.exists, adapter.list(dir).files *)
Exists(path) == path \in DOMAIN files
ListFiles(dir) == {path \in DOMAIN files : path.folder = dir}
(* adapter.write does not make the folder of the path: the cache makes its
   directory itself before it writes (ensureCacheDir) *)
CanWrite(path) == path.folder \in dirs
(* files with one blob more, or one blob less *)
Written(path, text) ==
  [q \in DOMAIN files \cup {path} |-> IF q = path THEN text ELSE files[q]]
Removed(path) == [q \in DOMAIN files \ {path} |-> files[q]]

----------------------------------------------------------------------------
(* The file-parsing facade and the PDF cache, one step per adapter call *)

Procs == {1, 2}

(* the calls of a client *)
ParseFileCall(file, opts) ==
  [op |-> "parseFile", file |-> file, options |-> opts,
   cacheKey |-> Null, entry |-> Null, project |-> Null]
ProjectParseFileCall(project, file, opts) ==
  [op |-> "projectParseFile", file |-> file, options |-> opts,
   cacheKey |-> Null, entry |-> Null, project |-> project]
GetCall(file) ==
  [op |-> "get", file |-> file, options |-> Undefined,
   cacheKey |-> Null, entry |-> Null, project |-> Null]
SetCall(file, response) ==
  [op |-> "set", file |-> file, options |-> Undefined,
   cacheKey |-> Null, entry |-> response, project |-> Null]
GetWithKeyCall(cacheKey) ==
  [op |-> "getWithKey", file |-> Null, options |-> Undefined,
   cacheKey |-> cacheKey, entry |-> Null, project |-> Null]
SetWithKeyCall(cacheKey, response) ==
  [op |-> "setWithKey", file |-> Null, options |-> Undefined,
   cacheKey |-> cacheKey, entry |-> response, project |-> Null]
ClearCall ==
  [op |-> "clear", file |-> Null, options |-> Undefined,
   cacheKey |-> Null, entry |-> Null, project |-> Null]

IdleProc ==
  [pc |-> "idle", call |-> Null, cacheKey |-> Null, entry |-> Null,
   extractedText |-> Null, listed |-> {}, faulted |-> {}, extracted |-> FALSE]

(* a text put together from pieces *)
Text(pieces) == [kind |-> "pieces", val |-> pieces]
(* search terms that no page of the documents holds: the search strategy
   selects no page and formatExtractedContent gives "" *)
AbsentTerms == Obj([searchTerms |-> Arr(<<Str("absent")>>)])
(* the text an extraction of this file with these options gives *)
ExtractedText(file, opts) ==
  IF opts = AbsentTerms THEN Text(<<>>)
  ELSE [kind |-> "text", val |-> [of |-> Metadata(file), with |-> opts]]

(* PDFParser.getProcessingOptions: limits by file size when the user gave
   no option, else the user's options as they are *)
getProcessingOptions(fileSize, userOptions) ==
  IF NoKeys(userOptions)
    THEN IF fileSize > LARGE_FILE_MB * BYTES_PER_MB
           THEN Obj([maxPages |-> Num(LARGE_FILE_MAX_PAGES),
                     maxCharacters |-> Num(LARGE_FILE_MAX_CHARACTERS)])
         ELSE IF fileSize > MEDIUM_FILE_MB * BYTES_PER_MB
           THEN Obj([maxPages |-> Num(MEDIUM_FILE_MAX_PAGES),
                     maxCharacters |-> Num(MEDIUM_FILE_MAX_CHARACTERS)])
         ELSE Obj(<<>>)
    ELSE userOptions

(* the message of the error the parser chosen for these options throws when
   pdf.js cannot open the bytes *)
OpenFailure(finalOptions) ==
  IF DOMAIN finalOptions.val # {}
    THEN <<"Selective PDF parsing failed: ", "Invalid PDF structure">>
    ELSE <<"Local PDF parsing failed: ", "Invalid PDF structure">>
ReadFailure == <<"EIO: readBinary failed">>

(* the string PDFParser.parseFile returns from its catch block *)
PDFParserError(file, message) ==
  Text(<<"[Error: Could not extract content from PDF ", file.basename, ". ">>
       \o message \o <<"]">>)

(* an adapter call throws, while the adapter may still fail *)
Fault == faultsLeft > 0 /\ faultsLeft' = faultsLeft - 1
NoFault == faultsLeft' = faultsLeft

(* the call of client p returns: the client is idle again *)
Returned(p, me, result) ==
  /\ proc' = [proc EXCEPT ![p] = IdleProc]
  /\ log' = Append(log, [call |-> me.call, by |-> p, result |-> result,
                         faulted |-> me.faulted, extracted |-> me.extracted])
Goto(p, me, next) ==
  /\ proc' = [proc EXCEPT ![p] = [me EXCEPT !.pc = next]]
  /\ log' = log

(* client p makes its next call *)
Begin(p) ==
  /\ proc[p].pc = "idle"
  /\ todo[p] # <<>>
  /\ Head(todo[p]).op # "projectParseFile"
  /\ todo' = [todo EXCEPT ![p] = Tail(@)]
  /\ LET call == Head(todo[p])
         me == [IdleProc EXCEPT !.call = call, !.entry = call.entry]
     IN CASE call.op = "parseFile" ->
               proc' = [proc EXCEPT ![p] =
                 [me EXCEPT !.pc = "get_exists",
                            !.cacheKey = getCacheKeyWithOptions(call.file,
                                                                call.options)]]
          [] call.op = "get" ->
               proc' = [proc EXCEPT ![p] =
                 [me EXCEPT !.pc = "get_exists",
                            !.cacheKey = getCacheKey(call.file)]]
          [] call.op = "getWithKey" ->
               proc' = [proc EXCEPT ![p] =
                 [me EXCEPT !.pc = "get_exists", !.cacheKey = call.cacheKey]]
          [] call.op = "set" ->
               proc' = [proc EXCEPT ![p] =
                 [me EXCEPT !.pc = "set_exists",
                            !.cacheKey = getCacheKey(call.file)]]
          [] call.op = "setWithKey" ->
               proc' = [proc EXCEPT ![p] =
                 [me EXCEPT !.pc = "set_exists", !.cacheKey = call.cacheKey]]
          [] call.op = "clear" ->
               proc' = [proc EXCEPT ![p] = [me EXCEPT !.pc = "clear_exists"]]
  /\ UNCHANGED <<dirs, files, log, faultsLeft, projectCache, extraction, aside>>

(* what follows the cache read of get, getWithKey and parseFile: the caller
   of the cache has its answer, and parseFile returns the cached response
   or goes on to extract *)
AfterGet(p, cachedResponse, failed) ==
  LET me == [proc[p] EXCEPT !.faulted = @ \cup failed]
  IN IF me.call.op = "parseFile"
       THEN IF cachedResponse # Null
              THEN Returned(p, me, cachedResponse.val.response)
              ELSE Goto(p, me, "extract")
       ELSE Returned(p, me, cachedResponse)

(* getWithKey / get: await adapter.exists(cachePath) *)
GetExists(p) ==
  /\ proc[p].pc = "get_exists"
  /\ \/ Fault /\ AfterGet(p, Null, {"read"})
     \/ /\ NoFault
        /\ IF Exists(getCachePath(proc[p].cacheKey))
             THEN Goto(p, proc[p], "get_read")
             ELSE AfterGet(p, Null, {})
  /\ UNCHANGED <<dirs, files, todo, projectCache, extraction, aside>>

(* getWithKey / get: JSON.parse(await adapter.read(cachePath)) *)
GetRead(p) ==
  /\ proc[p].pc = "get_read"
  /\ LET cachePath == getCachePath(proc[p].cacheKey)
     IN \/ Fault /\ AfterGet(p, Null, {"read"})
        \/ /\ NoFault
           /\ IF Exists(cachePath)
                THEN AfterGet(p, JSONparse(files[cachePath]), {})
                ELSE AfterGet(p, Null, {"read"})
  /\ UNCHANGED <<dirs, files, todo, projectCache, extraction, aside>>

(* PDFParser.parseFile after a miss: the options to process with, the bytes
   of the file, the text of the parser; an error thrown here is caught by
   parseFile and returned as a string *)
ExtractCachingFailure(p) ==
  /\ proc[p].pc = "extract"
  /\ LET file == proc[p].call.file
         finalOptions == getProcessingOptions(file.size, proc[p].call.options)
         extractedText == IF file.opens
                            THEN ExtractedText(file, finalOptions)
                            ELSE PDFParserError(file, OpenFailure(finalOptions))
         response == Obj([response |-> extractedText,
                          elapsed_time_ms |-> Num(0),
                          options |-> finalOptions])
     IN \/ /\ Fault
           /\ Returned(p, [proc[p] EXCEPT !.faulted = @ \cup {"document"}],
                       PDFParserError(file, ReadFailure))
        \/ /\ NoFault
           /\ Goto(p, [proc[p] EXCEPT !.extractedText = extractedText,
                                     !.entry = response,
                                     !.extracted = file.opens],
                   "set_exists")
  /\ UNCHANGED <<dirs, files, todo, projectCache, extraction, aside>>
Extract(p) ==
  /\ proc[p].pc = "extract"
  /\ LET file == proc[p].call.file
         finalOptions == getProcessingOptions(file.size, proc[p].call.options)
         extractedText == ExtractedText(file, finalOptions)
         response == Obj([response |-> extractedText,
                          elapsed_time_ms |-> Num(0),
                          options |-> finalOptions])
     IN \/ /\ Fault
           /\ Returned(p, [proc[p] EXCEPT !.faulted = @ \cup {"document"}],
                       PDFParserError(file, ReadFailure))
        \/ /\ NoFault
           /\ IF file.opens
                THEN Goto(p, [proc[p] EXCEPT !.extractedText = extractedText,
                                             !.entry = response,
                                             !.extracted = TRUE],
                          "set_exists")
                ELSE Returned(p, proc[p],
                              PDFParserError(file, OpenFailure(finalOptions)))
  /\ UNCHANGED <<dirs, files, todo, projectCache, extraction, aside>>

(* a cache write whose failure is thrown on into the catch block of
   parseFile *)
AfterSetRethrow(p, failed) ==
  LET me == [proc[p] EXCEPT !.faulted = @ \cup failed]
  IN IF me.call.op = "parseFile"
       THEN IF failed = {}
              THEN Returned(p, me, me.extractedText)
              ELSE Returned(p, me, PDFParserError(me.call.file,
                                                  <<"EIO: write failed">>))
       ELSE Returned(p, me, Undefined)

(* what follows the cache write of set, setWithKey and parseFile: nothing
   is thrown to the caller, and parseFile returns the text it extracted *)
AfterSet(p, failed) ==
  LET me == [proc[p] EXCEPT !.faulted = @ \cup failed]
  IN IF me.call.op = "parseFile"
       THEN Returned(p, me, me.extractedText)
       ELSE Returned(p, me, Undefined)

(* ensureCacheDir: await adapter.exists(cacheDir) *)
SetExists(p) ==
  /\ proc[p].pc = "set_exists"
  /\ \/ Fault /\ AfterSet(p, {"write"})
     \/ /\ NoFault
        /\ IF cacheDir \in dirs
             THEN Goto(p, proc[p], "set_write")
             ELSE Goto(p, proc[p], "set_mkdir")
  /\ UNCHANGED <<dirs, files, todo, projectCache, extraction, aside>>

(* ensureCacheDir: await adapter.mkdir(cacheDir).  When another writer has
   made the directory since the check, the adapter either takes the call or
   throws; ensureCacheDir catches nothing, so the error ends the write *)
SetMkdir(p) ==
  /\ proc[p].pc = "set_mkdir"
  /\ \/ Fault /\ AfterSet(p, {"write"}) /\ dirs' = dirs
     \/ /\ NoFault
        /\ IF cacheDir \in dirs
             THEN /\ dirs' = dirs
                  /\ \/ Goto(p, proc[p], "set_write")
                     \/ AfterSet(p, {"write", "mkdir"})
             ELSE /\ dirs' = dirs \cup {cacheDir}
                  /\ Goto(p, proc[p], "set_write")
  /\ UNCHANGED <<files, todo, projectCache, extraction, aside>>

(* setWithKey / set: await adapter.write(cachePath, JSON.stringify(response)) *)
SetWrite(p) ==
  /\ proc[p].pc = "set_write"
  /\ LET cachePath == getCachePath(proc[p].cacheKey)
     IN \/ Fault /\ AfterSet(p, {"write"}) /\ files' = files
        \/ /\ NoFault
           /\ IF CanWrite(cachePath)
                THEN /\ files' = Written(cachePath,
                                         JSONstringify(proc[p].entry))
                     /\ AfterSet(p, {})
                ELSE /\ files' = files
                     /\ AfterSet(p, {"write"})
  /\ UNCHANGED <<dirs, todo, projectCache, extraction, aside>>

(* clear: await adapter.exists(cacheDir) *)
ClearExists(p) ==
  /\ proc[p].pc = "clear_exists"
  /\ \/ Fault /\ Returned(p, proc[p], Undefined)
     \/ /\ NoFault
        /\ IF cacheDir \in dirs
             THEN Goto(p, proc[p], "clear_list")
             ELSE Returned(p, proc[p], Undefined)
  /\ UNCHANGED <<dirs, files, todo, projectCache, extraction, aside>>

(* clear: (await adapter.list(cacheDir)).files *)
ClearList(p) ==
  /\ proc[p].pc = "clear_list"
  /\ \/ Fault /\ Returned(p, proc[p], Undefined)
     \/ /\ NoFault
        /\ Goto(p, [proc[p] EXCEPT !.listed = ListFiles(cacheDir)],
                "clear_remove")
  /\ UNCHANGED <<dirs, files, todo, projectCache, extraction, aside>>

(* clear: await adapter.remove(file) for the next listed file, or the end
   of the loop *)
ClearRemove(p) ==
  /\ proc[p].pc = "clear_remove"
  /\ IF proc[p].listed = {}
       THEN NoFault /\ files' = files /\ Returned(p, proc[p], Undefined)
       ELSE \E file \in proc[p].listed :
              \/ Fault /\ files' = files /\ Returned(p, proc[p], Undefined)
              \/ /\ NoFault
                 /\ IF Exists(file)
                      THEN /\ files' = Removed(file)
                           /\ Goto(p, [proc[p] EXCEPT !.listed = @ \ {file}],
                                   "clear_remove")
                      ELSE /\ files' = files
                           /\ Returned(p, proc[p], Undefined)
  /\ UNCHANGED <<dirs, todo, projectCache, extraction, aside>>

(* a value that counts as true in `if (cached)`: not null, and not "" *)
EmptyString == Text(<<>>)
Truthy(v) == v.kind \notin {"null", "undefined", "NaN"} /\ v # EmptyString

(* the key Docs4LLMParser.parseFile asks the per-project cache with: the
   path, followed by ":" and the JSON text of the options when there are any *)
ProjectCacheKey(file, opts) ==
  [path |-> file.path,
   optionsKey |-> IF NoKeys(opts) THEN Null ELSE JSONstringify(opts)]

(* ProjectContextCache.getFileContext: the text stored for the project and
   the key, or nothing *)
getFileContext(project, cacheKey) ==
  IF [project |-> project, cacheKey |-> cacheKey] \in DOMAIN projectCache
    THEN projectCache[[project |-> project, cacheKey |-> cacheKey]]
    ELSE Null

(* ProjectContextCache.setFileContext: the cache with the text stored *)
setFileContext(project, cacheKey, content) ==
  LET key == [project |-> project, cacheKey |-> cacheKey]
  IN [k \in DOMAIN projectCache \cup {key} |->
        IF k = key THEN content ELSE projectCache[k]]

(* the string Docs4LLMParser.parseFile returns from its catch block *)
Docs4LLMParserError(file) ==
  Text(<<"[Error: Could not extract content from ", file.basename, "]">>)

(* Docs4LLMParser.parseFile, the whole call *)
ProjectParseFile(p) ==
  /\ proc[p].pc = "idle"
  /\ todo[p] # <<>>
  /\ Head(todo[p]).op = "projectParseFile"
  /\ todo' = [todo EXCEPT ![p] = Tail(@)]
  /\ LET call == Head(todo[p])
         file == call.file
         cacheKey == ProjectCacheKey(file, call.options)
         cachedContent == getFileContext(call.project, cacheKey)
         localText ==
           ExtractedText(file, IF NoKeys(call.options) THEN Obj(<<>>)
                               ELSE call.options)
         me == [IdleProc EXCEPT !.call = call]
     IN IF call.project = Null
          THEN /\ NoFault /\ projectCache' = projectCache
               /\ Returned(p, me, Docs4LLMParserError(file))
        ELSE IF Truthy(cachedContent)
          THEN /\ NoFault /\ projectCache' = projectCache
               /\ Returned(p, me, cachedContent)
        ELSE \/ /\ Fault /\ projectCache' = projectCache
                /\ Returned(p, me, Docs4LLMParserError(file))
             \/ /\ NoFault
                /\ IF file.opens
                     THEN /\ projectCache' =
                               setFileContext(call.project, cacheKey, localText)
                          /\ Returned(p, [me EXCEPT !.extracted = TRUE],
                                      localText)
                     ELSE /\ projectCache' = projectCache
                          /\ Returned(p, me, Docs4LLMParserError(file))
  /\ UNCHANGED <<dirs, files, extraction, aside>>

NextFacade ==
  \E p \in Procs :
    \/ Begin(p)
    \/ GetExists(p)
    \/ GetRead(p)
    \/ Extract(p)
    \/ SetExists(p)
    \/ SetMkdir(p)
    \/ SetWrite(p)
    \/ ClearExists(p)
    \/ ClearList(p)
    \/ ClearRemove(p)
    \/ ProjectParseFile(p)

(* no client, no cache: the facade while something else is looked at *)
IdleFacade ==
  /\ dirs = {}
  /\ files = <<>>
  /\ todo = [p \in Procs |-> <<>>]
  /\ proc = [p \in Procs |-> IdleProc]
  /\ log = <<>>
  /\ faultsLeft = 0
  /\ projectCache = <<>>

IdleEmbed ==
  /\ optionsString = <<>>
  /\ embedOptions = Null

(* no string comparison *)
IdleStrings ==
  /\ string1 = <<>>
  /\ string2 = <<>>
  /\ matched = {}
  /\ measured = {}

(* no page being parsed into sections *)
IdleStructure ==
  /\ textItems = <<>>
  /\ textSections = {}

(* no chat context *)
NoNote == ""
IdleAdder == [pc |-> "idle", note |-> NoNote, contextNotes |-> <<>>]
IdleContext ==
  /\ contextNotes = <<>>
  /\ adders = [a \in Procs |-> IdleAdder]
  /\ activeNote = NoNote
  /\ includeActiveNote = FALSE

IdleAside == IdleEmbed /\ IdleStrings /\ IdleStructure /\ IdleContext

(* no extraction request *)
IdleExtraction ==
  /\ pdf = [numPages |-> 0, page |-> <<>>, outline |-> <<>>]
  /\ options = NoOptions
  /\ pc = "off"
  /\ calls = <<>>
  /\ args = NoOptions
  /\ keySections = <<>>
  /\ processedPages = 0
  /\ pageNum = 0
  /\ pages = <<>>
  /\ charCount = 0
  /\ stopped = FALSE
  /\ out = <<>>

----------------------------------------------------------------------------
(* Inline embed options (ContextProcessor.parseEmbedOptions) *)

(* String.prototype.split on a one-character separator *)
RECURSIVE Split(_, _)
Split(s, sep) ==
  IF sep \notin Range(s) THEN <<s>>
  ELSE LET i == CHOOSE k \in DOMAIN s :
                  s[k] = sep /\ \A m \in 1..(k - 1) : s[m] # sep
       IN <<SubSeq(s, 1, i - 1)>> \o Split(SubSeq(s, i + 1, Len(s)), sep)

Digits == {"0", "1", "2", "3", "4", "5", "6", "7", "8", "9"}
DigitValue(c) ==
  CASE c = "0" -> 0 [] c = "1" -> 1 [] c = "2" -> 2 [] c = "3" -> 3
    [] c = "4" -> 4 [] c = "5" -> 5 [] c = "6" -> 6 [] c = "7" -> 7
    [] c = "8" -> 8 [] c = "9" -> 9

RECURSIVE DecimalValue(_)
DecimalValue(ds) ==
  IF ds = <<>> THEN 0
  ELSE 10 * DecimalValue(SubSeq(ds, 1, Len(ds) - 1)) + DigitValue(ds[Len(ds)])

(* the end of the run of digits of s that starts at i; i - 1 when s[i] is no
   digit *)
RunEnd(s, i) ==
  CHOOSE j \in (i - 1)..Len(s) :
    /\ \A k \in i..j : s[k] \in Digits
    /\ j < Len(s) => s[j + 1] \notin Digits

(* parseInt of a string: blanks, a sign, then digits as far as they go; NaN
   when there is no digit *)
parseInt(s) ==
  LET t == TrimStart(s)
      signed == t # <<>> /\ Head(t) \in {"-", "+"}
      u == IF signed THEN Tail(t) ELSE t
      ds == SubSeq(u, 1, RunEnd(u, 1))
  IN IF ds = <<>> THEN NaN
     ELSE IF signed /\ Head(t) = "-" THEN Num(0 - DecimalValue(ds))
     ELSE Num(DecimalValue(ds))

(* value.match(/(\d+)-(\d+)/): the places where digits, "-" and a digit
   follow each other; the match is the leftmost one *)
PageMatches(s) ==
  {i \in DOMAIN s :
     /\ s[i] \in Digits
     /\ RunEnd(s, i) + 2 <= Len(s)
     /\ s[RunEnd(s, i) + 1] = "-"
     /\ s[RunEnd(s, i) + 2] \in Digits}

PageMatch(s) ==
  LET i == CHOOSE k \in PageMatches(s) : \A m \in PageMatches(s) : k <= m
      j == RunEnd(s, i)
  IN [start |-> parseInt(SubSeq(s, i, j)),
      end |-> parseInt(SubSeq(s, j + 2, RunEnd(s, j + 2)))]

(* the result of a call: an options object, or the error thrown *)
Throws(error) == [kind |-> "throws", val |-> error]

(* an object with one key set *)
WithKey(opts, k, v) == (k :> v) @@ opts

(* one part of the option string: "key:value", both trimmed; a part without
   ":" has the value undefined *)
ParsePart(part, opts) ==
  LET fields == Split(part, ":")
      key == ToLowerCase(Trim(fields[1]))
      hasValue == Len(fields) >= 2
      value == IF hasValue THEN Trim(fields[2]) ELSE <<>>
      jsValue == IF hasValue THEN Str(value) ELSE Undefined
      number == IF hasValue THEN parseInt(value) ELSE NaN
  IN CASE key = <<"p", "a", "g", "e", "s">> ->
            IF ~hasValue
              THEN Throws("TypeError: Cannot read properties of undefined")
            ELSE IF PageMatches(value) # {}
              THEN Obj(WithKey(opts, "pageRange", Obj(PageMatch(value))))
            ELSE Obj(opts)
       [] key = <<"s", "e", "a", "r", "c", "h">> ->
            Obj(WithKey(opts, "searchTerms", Arr(<<jsValue>>)))
       [] key \in {<<"c", "h", "a", "p", "t", "e", "r">>,
                   <<"c", "h", "a", "p", "t", "e", "r", "s">>} ->
            Obj(WithKey(opts, "chapters", Arr(<<jsValue>>)))
       [] key = <<"m", "a", "x">> ->
            Obj(WithKey(opts, "maxPages", number))
       [] key \in {<<"c", "h", "a", "r", "s">>,
                   <<"c", "h", "a", "r", "a", "c", "t", "e", "r", "s">>} ->
            Obj(WithKey(opts, "maxCharacters", number))
       [] OTHER -> Obj(opts)

(* the loop over the parts; an error ends it *)
RECURSIVE ParseParts(_, _)
ParseParts(parts, opts) ==
  IF parts = <<>> THEN Obj(opts)
  ELSE LET result == ParsePart(Head(parts), opts)
       IN IF result.kind = "throws" THEN result
          ELSE ParseParts(Tail(parts), result.val)

parseEmbedOptions(s) ==
  IF s = <<>> THEN Obj(<<>>) ELSE ParseParts(Split(s, ","), <<>>)

(* the call *)
ParseEmbedOptions ==
  /\ embedOptions = Null
  /\ embedOptions' = parseEmbedOptions(optionsString)
  /\ UNCHANGED <<optionsString, facade, extraction, strings, structure,
                 context>>

----------------------------------------------------------------------------
(* String comparison (fuzzyMatch, levenshteinDistance), the whole calls *)

FuzzyMatch ==
  /\ matched = {}
  /\ matched' = {fuzzyMatch(string1, string2)}
  /\ UNCHANGED <<string1, string2, measured, extraction, facade, embed,
                 structure, context>>

LevenshteinDistance ==
  /\ measured = {}
  /\ measured' = {levenshteinDistance(string1, string2)}
  /\ UNCHANGED <<string1, string2, matched, extraction, facade, embed,
                 structure, context>>

NextStrings == FuzzyMatch \/ LevenshteinDistance

----------------------------------------------------------------------------
(* The structural page parser (parseTextStructure) *)

(* a text item of a page: its words (none when item.str is blank), whether
   its text has the look of a header (a section pattern, bold and large, or
   capitals), and transform[4], transform[5] *)
TextItem(str, headerLook, x, y) ==
  [str |-> str, headerLook |-> headerLook, x |-> x, y |-> y]

(* detectSectionType on prose without list marks or table gaps: a header by
   its look, a footer near the bottom of the page, else a paragraph *)
detectSectionType(item) ==
  IF item.headerLook THEN "header"
  ELSE IF item.y < FOOTER_Y THEN "footer"
  ELSE "paragraph"

Abs(n) == IF n < 0 THEN 0 - n ELSE n

(* isNewSection; the current section is a sequence of no or one section *)
isNewSection(position, currentSection) ==
  IF currentSection = <<>> THEN TRUE
  ELSE LET yGap == Abs(position.y - currentSection[1].position.y)
           xGap == Abs(position.x - currentSection[1].position.x)
       IN yGap > NEW_SECTION_Y_GAP \/ xGap > NEW_SECTION_X_GAP

(* sections.push(currentSection) with its content, when there is a current
   section with text *)
PushSection(done, currentSection, currentText) ==
  IF currentSection # <<>> /\ currentText # <<>>
    THEN Append(done, [currentSection[1] EXCEPT !.content = currentText])
    ELSE done

(* the loop of parseTextStructure from item i on; a text is the sequence of
   its words, which " " joins *)
RECURSIVE ParseItems(_, _, _, _, _)
ParseItems(its, i, done, currentSection, currentText) ==
  IF i > Len(its) THEN PushSection(done, currentSection, currentText)
  ELSE LET item == its[i]
           position == [x |-> item.x, y |-> item.y]
           sectionType == detectSectionType(item)
       IN IF item.str = <<>>
            THEN ParseItems(its, i + 1, done, currentSection, currentText)
          ELSE IF \/ currentSection = <<>>
                  \/ sectionType # currentSection[1].type
                  \/ isNewSection(position, currentSection)
            THEN ParseItems(its, i + 1,
                            PushSection(done, currentSection, currentText),
                            <<[type |-> sectionType, content |-> <<>>,
                               position |-> position]>>,
                            item.str)
          ELSE ParseItems(its, i + 1, done, currentSection,
                          currentText \o item.str)

parseTextStructure(its) == ParseItems(its, 1, <<>>, <<>>, <<>>)

(* the call *)
ParseTextStructure ==
  /\ textSections = {}
  /\ textSections' = {parseTextStructure(textItems)}
  /\ UNCHANGED <<textItems, extraction, facade, embed, strings, context>>

----------------------------------------------------------------------------
(* The chat context (ContextProcessor.addNoteToContext), one step per await *)

(* ContextProcessor.hasEmbeddedPDFs: /!\[\[(.*?\.pdf)\]\]/ finds "![[",
   later ".pdf]]", in the content *)
hasEmbeddedPDFs(content) ==
  \E i \in 1..Len(content) : \E j \in (i + 3)..(Len(content) - 5) :
    /\ SubSeq(content, i, i + 2) = <<"!", "[", "[">>
    /\ SubSeq(content, j, j + 5) = <<".", "p", "d", "f", "]", "]">>

(* the note as setContextNotes appends it *)
AddedNote(note, content) ==
  [path |-> note, wasAddedViaReference |-> TRUE,
   hasEmbeddedPDFs |-> hasEmbeddedPDFs(content)]

(* contextNotes.some((existing) => existing.path === note.path) *)
InContext(notes, note) == \E i \in DOMAIN notes : notes[i].path = note

(* the calls that have not appended their note yet *)
Reading == {a \in Procs : adders[a].pc = "reading"}

(* addNoteToContext is called with the contextNotes of the caller: it returns
   when the note is among them, else it starts reading the note *)
AddNoteToContext(a, note) ==
  /\ adders[a].pc = "idle"
  /\ Len(contextNotes) + Cardinality(Reading) < MaxContextNotes
  /\ IF InContext(contextNotes, note)
       THEN adders' = adders
       ELSE adders' = [adders EXCEPT ![a] =
                         [pc |-> "reading", note |-> note,
                          contextNotes |-> contextNotes]]
  /\ UNCHANGED <<contextNotes, activeNote, includeActiveNote, extraction,
                 facade, embed, strings, structure>>

(* vault.read resolves: the active-note flag is set when the note is the
   active one, and the updater appends the note to the list as it is then;
   or vault.read rejects and nothing is added *)
NoteRead(a, content) ==
  /\ adders[a].pc = "reading"
  /\ adders' = [adders EXCEPT ![a] = IdleAdder]
  /\ \/ /\ includeActiveNote' =
             IF activeNote # NoNote /\ adders[a].note = activeNote
               THEN TRUE ELSE includeActiveNote
        /\ contextNotes' =
             Append(contextNotes, AddedNote(adders[a].note, content))
     \/ UNCHANGED <<contextNotes, includeActiveNote>>
  /\ UNCHANGED <<activeNote, extraction, facade, embed, strings, structure>>

----------------------------------------------------------------------------
(* The documents and requests of the model *)

MaybeKey(k, S) == {NoOptions} \cup {k :> v : v \in S}

(* titles of outline entries and headers, and requested chapter names:
   "ab" is contained in "Abc" once lower-cased, "abd" is within distance 1 of
   it (similarity 2/3), "x" matches neither title *)
Titles == {<<"A", "b", "c">>, <<"d", "e">>}
ChapterNames == {<<"a", "b">>, <<"a", "b", "d">>, <<"x">>}
ChapterLists == {<<c>> : c \in ChapterNames} \cup {<<<<"a", "b">>, <<"a", "b", "d">>>>}
SearchTerms == <<<<"a", "b">>>>

FailedPage == [ok |-> FALSE, len |-> 0, relevance |-> 0, headers |-> <<>>]
Page(len, relevance, headers) ==
  [ok |-> TRUE, len |-> len, relevance |-> relevance, headers |-> headers]
Header(content, pattern) == [content |-> content, pattern |-> pattern]

Documents(PageSet, OutlineSets) ==
  UNION {[numPages : {n}, page : [1..n -> PageSet], outline : OutlineSets[n]]
         : n \in 1..MaxNumPages}

NoOutline == [n \in 1..MaxNumPages |-> {<<>>}]
(* outlines whose entries point anywhere in the document, in any order *)
SectionOutlines ==
  [n \in 1..MaxNumPages |->
     UNION {[1..k -> [title : {<<"d", "e">>}, dest : 0..n]] : k \in 1..MaxOutline}]
ChapterOutlines ==
  [n \in 1..MaxNumPages |->
     UNION {[1..k -> [title : Titles, dest : 1..n]] : k \in 1..MaxOutline}]

(* every combination of the three strategy keys, on a two-page document *)
InitSelect ==
  /\ pdf \in {d \in Documents({Page(1, 1, <<>>)}, NoOutline) : d.numPages = 2}
  /\ options \in {a @@ b @@ c @@ d :
                    a \in MaybeKey("chapters", {<<>>, <<<<"x">>>>}),
                    b \in MaybeKey("searchTerms", {<<>>, SearchTerms}),
                    c \in MaybeKey("pageRange", {[start |-> 1, end |-> 2]}),
                    d \in MaybeKey("maxPages", {1})}

InitSearch ==
  /\ pdf \in Documents({FailedPage} \cup {Page(1, r, <<>>) : r \in 0..MaxScore},
                       NoOutline)
  /\ options \in {a @@ b @@ c :
                    a \in {"searchTerms" :> SearchTerms},
                    b \in MaybeKey("maxPages", 0..MaxOptPages),
                    c \in MaybeKey("contextWindow", {0, 1, 2})}

InitPageRange ==
  /\ pdf \in Documents({FailedPage, Page(1, 0, <<>>)}, NoOutline)
  /\ options \in {a @@ b :
                    a \in {"pageRange" :> r :
                             r \in [start : 0..(MaxNumPages + 1),
                                    end : 0..(MaxNumPages + 1) \cup {999}]},
                    b \in MaybeKey("maxPages", {1})}

InitLimits ==
  /\ pdf \in Documents({FailedPage} \cup
                         {Page(l, 0, <<>>) : l \in {0, 1, MaxPageLen}},
                       NoOutline)
  /\ options \in {a @@ b :
                    a \in MaybeKey("maxPages", 1..MaxOptPages),
                    b \in MaybeKey("maxCharacters", 1..MaxOptChars)}

InitOutlineSections ==
  /\ pdf \in Documents({Page(1, 0, <<>>)}, SectionOutlines)
  /\ options \in {a @@ b :
                    a \in MaybeKey("maxPages", 1..MaxOptPages),
                    b \in MaybeKey("maxCharacters", {1})}

InitHeaderSections ==
  /\ pdf \in Documents({FailedPage,
                        Page(1, 0, <<Header(<<"d", "e">>, FALSE)>>),
                        Page(1, 0, <<Header(<<"A", "b", "c">>, TRUE)>>),
                        Page(1, 0, <<Header(<<"A", "b", "c">>, TRUE),
                                     Header(<<"d", "e">>, TRUE)>>)},
                       NoOutline)
  /\ options \in {a @@ b :
                    a \in MaybeKey("maxPages", 1..MaxOptPages),
                    b \in MaybeKey("maxCharacters", {1})}

InitOutlineChapters ==
  /\ pdf \in Documents({Page(1, 1, <<>>)}, ChapterOutlines)
  /\ options \in {a @@ b :
                    a \in {"chapters" :> c : c \in ChapterLists},
                    b \in MaybeKey("maxPages", 1..MaxOptPages)}

InitDetectedChapters ==
  /\ pdf \in Documents({FailedPage, Page(1, 1, <<>>),
                        Page(1, 1, <<Header(<<"A", "b", "c">>, TRUE)>>),
                        Page(1, 0, <<Header(<<"d", "e">>, FALSE)>>)},
                       NoOutline)
  /\ options \in {a @@ b :
                    a \in {"chapters" :> c : c \in ChapterLists},
                    b \in MaybeKey("maxPages", 1..MaxOptPages)}

Init ==
  /\ \/ InitSelect
     \/ InitSearch
     \/ InitPageRange
     \/ InitLimits
     \/ InitOutlineSections
     \/ InitHeaderSections
     \/ InitOutlineChapters
     \/ InitDetectedChapters
  /\ pc = "start"
  /\ calls = <<>>
  /\ args = NoOptions
  /\ keySections = <<>>
  /\ processedPages = 0
  /\ pageNum = 0
  /\ pages = <<>>
  /\ charCount = 0
  /\ stopped = FALSE
  /\ out = <<>>
  /\ IdleFacade
  /\ IdleAside

Spec == Init /\ [][Next]_vars

(* Search requests that say what minRelevanceScore is, 0 included *)
InitThreshold ==
  /\ pdf \in Documents({FailedPage} \cup {Page(1, r, <<>>) : r \in 0..MaxScore},
                       NoOutline)
  /\ options \in {a @@ b @@ c :
                    a \in {"searchTerms" :> SearchTerms},
                    b \in MaybeKey("minRelevanceScore", 0..MaxScore),
                    c \in MaybeKey("contextWindow", {0})}
  /\ pc = "start"
  /\ calls = <<>>
  /\ args = NoOptions
  /\ keySections = <<>>
  /\ processedPages = 0
  /\ pageNum = 0
  /\ pages = <<>>
  /\ charCount = 0
  /\ stopped = FALSE
  /\ out = <<>>
  /\ IdleFacade
  /\ IdleAside

NextThreshold ==
  \/ ExtractTextFromPDF
  \/ ExtractByIntelligentSearch

SpecThreshold == InitThreshold /\ [][NextThreshold]_vars

(* Chapter requests on documents with or without a native outline, whose
   pages may fail, carry a numbered header "Abc" or a header "Abc" that no
   section pattern matches *)
InitChapters ==
  /\ pdf \in Documents({FailedPage, Page(1, 1, <<>>),
                        Page(1, 1, <<Header(<<"A", "b", "c">>, TRUE)>>),
                        Page(1, 0, <<Header(<<"A", "b", "c">>, FALSE)>>)},
                       [n \in 1..MaxNumPages |->
                          {<<>>} \cup [1..1 -> [title : Titles, dest : 1..n]]])
  /\ options \in {a @@ b :
                    a \in {"chapters" :> c : c \in ChapterLists},
                    b \in MaybeKey("maxPages", {1})}
  /\ pc = "start"
  /\ calls = <<>>
  /\ args = NoOptions
  /\ keySections = <<>>
  /\ processedPages = 0
  /\ pageNum = 0
  /\ pages = <<>>
  /\ charCount = 0
  /\ stopped = FALSE
  /\ out = <<>>
  /\ IdleFacade
  /\ IdleAside

NextChapters ==
  \/ ExtractTextFromPDF
  \/ ExtractByChapters
  \/ ExtractByIntelligentSearch

SpecChapters == InitChapters /\ [][NextChapters]_vars

(* Option strings: up to MaxParts parts "key", "key:" or "key:value" with
   the keys of the options, one key in mixed case and one unknown key, and
   values that are a range, a number, a number after a blank, a word, and
   digits followed by letters *)
EmbedKeys ==
  {<<"p", "a", "g", "e", "s">>, <<"s", "e", "a", "r", "c", "h">>,
   <<"c", "h", "a", "p", "t", "e", "r">>, <<"m", "a", "x">>,
   <<"c", "h", "a", "r", "s">>, <<" ", "C", "h", "A", "r", "s">>, <<"x">>}
EmbedValues ==
  {<<>>, <<"1", "-", "5">>, <<"2", "0">>, <<" ", "7">>, <<"a", "b", "c">>,
   <<"1", "2", "a">>, <<"a", "1", "-", "5", "b">>}
EmbedParts ==
  EmbedKeys \cup {k \o <<":">> \o v : k \in EmbedKeys, v \in EmbedValues}

RECURSIVE Join(_, _)
Join(ss, sep) ==
  IF Len(ss) = 0 THEN <<>>
  ELSE IF Len(ss) = 1 THEN ss[1]
  ELSE ss[1] \o <<sep>> \o Join(Tail(ss), sep)

InitEmbed ==
  /\ optionsString \in
       {<<>>} \cup {Join(parts, ",") :
                      parts \in UNION {[1..n -> EmbedParts] : n \in 1..MaxParts}}
  /\ embedOptions = Null
  /\ IdleFacade
  /\ IdleExtraction
  /\ IdleStrings
  /\ IdleStructure
  /\ IdleContext

SpecEmbed == InitEmbed /\ [][ParseEmbedOptions]_vars

(* Strings to compare: every string of up to MaxStringLen letters "a" and
   "b", as it is, with its letters in upper case, and with a blank before or
   after it; two strings of five letters two and three substitutions apart;
   and the titles of the examples *)
RECURSIVE StringsOver(_, _)
StringsOver(letters, n) ==
  IF n = 0 THEN {<<>>}
  ELSE LET shorter == StringsOver(letters, n - 1)
       IN shorter \cup {Append(s, c) : s \in shorter, c \in letters}

UpperCase(s) ==
  [i \in DOMAIN s |-> CASE s[i] = "a" -> "A" [] s[i] = "b" -> "B" [] OTHER -> s[i]]

ShortStrings ==
  UNION {{s, UpperCase(s), <<" ">> \o s, s \o <<" ">>} :
           s \in StringsOver({"a", "b"}, MaxStringLen)}

FiveLetters ==
  {<<"a", "a", "a", "a", "a">>, <<"a", "a", "a", "b", "b">>,
   <<"a", "a", "b", "b", "b">>, <<"A", "a", "b", "a", "a", " ">>}

ChapterTitle ==
  <<"C", "h", "a", "p", "t", "e", "r", " ", "1", ":", " ",
    "O", "v", "e", "r", "v", "i", "e", "w">>
ChapterName == <<"c", "h", "a", "p", "t", "e", "r", " ", "1">>
Kitten == <<"k", "i", "t", "t", "e", "n">>
Sitting == <<"s", "i", "t", "t", "i", "n", "g">>

StringPairs ==
  (ShortStrings \X ShortStrings) \cup (FiveLetters \X FiveLetters)
  \cup {<<ChapterTitle, ChapterName>>, <<Kitten, Sitting>>, <<Sitting, Kitten>>}

InitStrings ==
  /\ \E pair \in StringPairs : string1 = pair[1] /\ string2 = pair[2]
  /\ matched = {}
  /\ measured = {}
  /\ IdleExtraction
  /\ IdleFacade
  /\ IdleEmbed
  /\ IdleStructure
  /\ IdleContext

SpecStrings == InitStrings /\ [][NextStrings]_vars

(* Pages of up to MaxItems items: items one line (15 units) apart down the
   page, an item exactly 20 units from the first, footers, items 50 and 51
   units to the right, with or without the look of a header, and a blank
   item; the word of an item says where it lies *)
ItemPlaces ==
  {<<0, 60>>, <<0, 75>>, <<0, 80>>, <<0, 90>>, <<50, 60>>, <<51, 60>>, <<0, 40>>}
PageItems ==
  {TextItem(<<[x |-> place[1], y |-> place[2], header |-> look]>>,
            look, place[1], place[2]) :
     place \in ItemPlaces, look \in BOOLEAN}
  \cup {TextItem(<<>>, FALSE, 0, 75)}

InitStructure ==
  /\ textItems \in UNION {[1..n -> PageItems] : n \in 0..MaxItems}
  /\ textSections = {}
  /\ IdleExtraction
  /\ IdleFacade
  /\ IdleEmbed
  /\ IdleStrings
  /\ IdleContext

SpecStructure == InitStructure /\ [][ParseTextStructure]_vars

(* Notes of the vault and what they hold *)
Notes == {"a.md", "b.md"}
NoteContents ==
  {<<"h", "i">>, <<"!", "[", "[", "a", ".", "p", "d", "f", "]", "]">>}

(* the chat starts with no note in its context, any note may be the active
   one, and no call is running *)
InitContext ==
  /\ contextNotes = <<>>
  /\ adders = [a \in Procs |-> IdleAdder]
  /\ activeNote \in Notes \cup {NoNote}
  /\ includeActiveNote = FALSE
  /\ IdleExtraction
  /\ IdleFacade
  /\ IdleEmbed
  /\ IdleStrings
  /\ IdleStructure

NextContext ==
  \E a \in Procs :
    \/ \E note \in Notes : AddNoteToContext(a, note)
    \/ \E content \in NoteContents : NoteRead(a, content)

SpecContext == InitContext /\ [][NextContext]_vars

(* Documents for the full-text parser: pages that fail, pages without text
   and pages with text *)
InitLocal ==
  /\ pdf \in Documents({FailedPage, Page(0, 0, <<>>), Page(1, 0, <<>>)},
                       NoOutline)
  /\ options = NoOptions
  /\ pc = "local"
  /\ calls = <<>>
  /\ args = NoOptions
  /\ keySections = <<>>
  /\ processedPages = 0
  /\ pageNum = 0
  /\ pages = <<>>
  /\ charCount = 0
  /\ stopped = FALSE
  /\ out = <<>>
  /\ IdleFacade
  /\ IdleAside

(* every parser of PDF text: the selective strategies and the full text *)
InitParsers == Init \/ InitLocal

NextParsers ==
  \/ ExtractTextFromPDF
  \/ ExtractByChapters
  \/ ExtractByIntelligentSearch
  \/ ExtractByPageRange
  \/ IntelligentExtraction
  \/ SectionsStep
  \/ SectionsReturn
  \/ LimitsStep
  \/ LimitsReturn
  \/ LocalExtractTextFromPDF

SpecParsers == InitParsers /\ [][NextParsers]_vars

(* The vault of the facade: one document in two folders, in every version
   (size, mtime), and one file pdf.js cannot open *)
BadFile == TFile(<<"bad.pdf">>, "bad", 1, 1, FALSE)
Paths == {<<"a.pdf">>, <<"docs", "a.pdf">>}
Files ==
  {TFile(path, "a", size, mtime, TRUE) :
     path \in Paths, size \in 1..MaxSize, mtime \in 1..MaxMtime}
  \cup {BadFile}
SampleFiles == {TFile(path, "a", 1, 1, TRUE) : path \in Paths}

(* the options of a request: none, {}, {maxPages: n}, and {maxPages: NaN} as
   parseEmbedOptions makes it of "max:abc" *)
UserOptions ==
  {Undefined, Obj(<<>>), Obj([maxPages |-> Num(MaxOptPages)]),
   Obj([maxPages |-> NaN])}

(* the entries a caller hands to set and setWithKey *)
Responses ==
  {Obj([response |-> Str("stored"), elapsed_time_ms |-> Num(0)]),
   Obj([response |-> Str("stored"), elapsed_time_ms |-> Num(0),
        options |-> Obj([maxPages |-> NaN])])}

SampleKeys ==
  {getCacheKey(f) : f \in SampleFiles}
  \cup {getCacheKeyWithOptions(f, o) :
          f \in SampleFiles, o \in {Undefined, Obj([maxPages |-> NaN])}}

Projects == {Null, Str("P"), Str("Q")}

(* what one client does, one call after the other *)
RoundTripCalls ==
  {<<GetWithKeyCall(k)>> : k \in SampleKeys}
  \cup {<<SetWithKeyCall(k, e), GetWithKeyCall(k2)>> :
          k \in SampleKeys, e \in Responses, k2 \in SampleKeys}
SharedKeyCalls ==
  {<<SetCall(f, e), ParseFileCall(f2, o)>> :
     f \in SampleFiles, e \in Responses, f2 \in Files,
     o \in {Undefined, Obj(<<>>)}}
  \cup {<<ParseFileCall(f, o), GetCall(f2)>> :
          f \in SampleFiles, o \in UserOptions, f2 \in Files}
  \cup {<<SetCall(f, e), GetCall(f2)>> :
          f \in SampleFiles, e \in Responses, f2 \in SampleFiles}
ParseTwiceCalls ==
  {<<ParseFileCall(f, o), ParseFileCall(f2, o2)>> :
     f \in SampleFiles \cup {BadFile},
     o \in UserOptions, f2 \in Files, o2 \in UserOptions}
ClearCalls ==
  {<<first, ClearCall, last>> :
     first \in {ParseFileCall(f, Undefined) : f \in SampleFiles}
               \cup {SetWithKeyCall(k, e) : k \in SampleKeys, e \in Responses}
               \cup {SetCall(f, e) : f \in SampleFiles, e \in Responses},
     last \in {GetWithKeyCall(k) : k \in SampleKeys}
              \cup {GetCall(f) : f \in SampleFiles}}
ProjectCalls ==
  {<<ProjectParseFileCall(pr, f, o), ProjectParseFileCall(pr2, f, o2)>> :
     pr \in Projects, pr2 \in Projects \ {Null},
     f \in SampleFiles \cup {BadFile},
     o \in UserOptions, o2 \in {Undefined, Obj([maxPages |-> NaN])}}
  \cup {<<ProjectParseFileCall(pr, f, AbsentTerms),
           ProjectParseFileCall(pr, f, AbsentTerms)>> :
          pr \in Projects \ {Null}, f \in SampleFiles}

(* the cache directory may be there or not, and the vault may hold a folder
   "docs" below it; the adapter may fail up to MaxFaults times *)
InitFacade ==
  /\ dirs \in {{}, {cacheDir}, {cacheDir, cacheDir \o <<"docs">>}}
  /\ files = <<>>
  /\ todo \in {[p \in Procs |-> IF p = 1 THEN calls1 ELSE <<>>] :
                 calls1 \in RoundTripCalls \cup SharedKeyCalls
                             \cup ParseTwiceCalls \cup ClearCalls
                             \cup ProjectCalls}
  /\ proc = [p \in Procs |-> IdleProc]
  /\ log = <<>>
  /\ faultsLeft \in 0..MaxFaults
  /\ projectCache = <<>>
  /\ IdleExtraction
  /\ IdleAside

SpecFacade == InitFacade /\ [][NextFacade]_vars

(* Files of one document at the sizes around the two thresholds, and a small
   one; each request is made twice, so that the second is a cache hit *)
ThresholdSizes ==
  {1} \cup {mb * BYTES_PER_MB + d :
              mb \in {MEDIUM_FILE_MB, LARGE_FILE_MB}, d \in {0 - 1, 0, 1}}
SizedFiles == {TFile(<<"a.pdf">>, "a", size, 1, TRUE) : size \in ThresholdSizes}

InitSizes ==
  /\ dirs \in {{}, {cacheDir}}
  /\ files = <<>>
  /\ todo \in {[p \in Procs |->
                  IF p = 1 THEN <<ParseFileCall(f, o), ParseFileCall(f, o)>>
                  ELSE <<>>] :
                 f \in SizedFiles, o \in UserOptions}
  /\ proc = [p \in Procs |-> IdleProc]
  /\ log = <<>>
  /\ faultsLeft = 0
  /\ projectCache = <<>>
  /\ IdleExtraction
  /\ IdleAside

NextSizes ==
  \E p \in Procs :
    \/ Begin(p)
    \/ GetExists(p)
    \/ GetRead(p)
    \/ Extract(p)
    \/ SetExists(p)
    \/ SetMkdir(p)
    \/ SetWrite(p)

SpecSizes == InitSizes /\ [][NextSizes]_vars

(* Two clients at once, one call each: the same parseFile request twice, or
   two cache writes; the cache is empty and its directory may be missing *)
RaceCalls ==
  {[p \in Procs |-> <<ParseFileCall(f, o)>>] :
     f \in SampleFiles, o \in UserOptions}
  \cup {[p \in Procs |-> IF p = 1 THEN <<SetWithKeyCall(k1, e1)>>
                         ELSE <<SetWithKeyCall(k2, e2)>>] :
          k1 \in SampleKeys, k2 \in SampleKeys, e1 \in Responses,
          e2 \in Responses}

InitRace ==
  /\ dirs \in {{}, {cacheDir}}
  /\ files = <<>>
  /\ todo \in RaceCalls
  /\ proc = [p \in Procs |-> IdleProc]
  /\ log = <<>>
  /\ faultsLeft = 0
  /\ projectCache = <<>>
  /\ IdleExtraction
  /\ IdleAside

SpecRace == InitRace /\ [][NextSizes]_vars

----------------------------------------------------------------------------
(* Properties *)

Done == pc = "done"
TopLevel == IF calls = <<>> THEN "none" ELSE calls[1]
Ran(f) == f \in Range(calls)

ChaptersSet == Has(options, "chapters") /\ options.chapters # <<>>
SearchTermsSet == Has(options, "searchTerms") /\ options.searchTerms # <<>>
PageRangeSet == Has(options, "pageRange")

(* C1: extractTextFromPDF picks exactly one top-level strategy, in the
   priority order chapters > searchTerms > pageRange > smart-auto: the chapter
   strategy runs iff chapters is non-empty, the search strategy is the
   top-level strategy iff chapters is empty or absent and searchTerms is
   non-empty, the page-range strategy runs iff both are empty or absent and
   pageRange is set, and smart-auto runs iff none of the three is set. *)
C1_StrategyPriority ==
  pc # "start" =>
    /\ TopLevel \in {"chapters", "search", "pageRange", "smart"}
    /\ TopLevel = "chapters" <=> ChaptersSet
    /\ TopLevel = "search" <=> ~ChaptersSet /\ SearchTermsSet
    /\ TopLevel = "pageRange" <=> ~ChaptersSet /\ ~SearchTermsSet /\ PageRangeSet
    /\ TopLevel = "smart" <=> ~ChaptersSet /\ ~SearchTermsSet /\ ~PageRangeSet
    /\ pc = "chapters" => TopLevel = "chapters"
    /\ pc = "search" => TopLevel = "search" \/ calls = <<"chapters", "search">>
    /\ pc = "pageRange" => TopLevel = "pageRange"
    /\ pc \in {"smart", "sections", "limits"} => TopLevel = "smart"
    /\ Ran("chapters") => ChaptersSet
    /\ Ran("pageRange") => ~ChaptersSet /\ ~SearchTermsSet
    /\ Ran("smart") => ~ChaptersSet /\ ~SearchTermsSet /\ ~PageRangeSet

(* all three keys are present and chapters wins over the other two *)
C1_Witness ==
  /\ Done
  /\ ChaptersSet /\ SearchTermsSet /\ PageRangeSet
  /\ TopLevel = "chapters"

----------------------------------------------------------------------------
(* Sequential bounded extraction *)

(* the limits a request asks for; the defaults stand in for an absent key *)
AskedMaxPages ==
  IF Has(options, "maxPages") /\ options.maxPages # 0
    THEN options.maxPages ELSE DEFAULT_MAX_PAGES
AskedMaxChars ==
  IF Has(options, "maxCharacters") /\ options.maxCharacters # 0
    THEN options.maxCharacters ELSE DEFAULT_MAX_CHARACTERS

Lens(ps) == [i \in DOMAIN ps |-> ps[i].len]
Ascending(nums) == \A i, j \in DOMAIN nums : i < j => nums[i] < nums[j]
HasNotice(text) == \E i \in DOMAIN text : text[i].type = "notice"

InLimits == Ran("limits")

(* C5: sequential bounded extraction walks the pages from 1 upward; in every
   state of the loop and on return the content lengths of the included pages
   sum to at most maxCharacters and at most min(maxPages, numPages) pages are
   included; a page that would push the sum above maxCharacters is not
   included, and no page after it is. *)
C5_SequentialBudget ==
  InLimits =>
    /\ SeqSum(Lens(pages)) <= AskedMaxChars
    /\ charCount = SeqSum(Lens(pages))
    /\ Len(pages) <= Min(AskedMaxPages, pdf.numPages)
    /\ Ascending([i \in DOMAIN pages |-> pages[i].pageNum])
    /\ \A i \in DOMAIN pages : pages[i].pageNum < pageNum
    /\ \A n \in 1..(pageNum - 1) :
         PageParses(pdf, n) => \E i \in DOMAIN pages : pages[i].pageNum = n
    /\ stopped =>
         /\ PageParses(pdf, pageNum)
         /\ SeqSum(Lens(pages)) + pdf.page[pageNum].len > AskedMaxChars
    /\ Done =>
         /\ PageBlocks(out) = formatExtractedContent(pages)
         /\ SeqSum(Lens(PageBlocks(out))) <= AskedMaxChars
         /\ Len(PageBlocks(out)) <= Min(AskedMaxPages, pdf.numPages)

(* the walk stopped at a page that would overflow, with earlier pages kept
   and a later page left out *)
C5_Witness ==
  /\ Done /\ InLimits /\ stopped
  /\ Len(pages) >= 1
  /\ pageNum < pdf.numPages
  /\ pageNum <= AskedMaxPages
  /\ PageParses(pdf, pageNum + 1)

(* C4: the truncation notice is appended whenever, and only when, the
   extraction stopped because the next page would have overflowed the
   maxCharacters budget. *)
C4_NoticeIffTruncated ==
  (Done /\ InLimits) => (HasNotice(out) <=> stopped)

----------------------------------------------------------------------------
(* Search strategy *)

AskedContextWindow ==
  IF Has(options, "contextWindow") THEN options.contextWindow
  ELSE DEFAULT_CONTEXT_WINDOW
AskedMinRelevance ==
  IF Has(options, "minRelevanceScore") THEN options.minRelevanceScore
  ELSE DEFAULT_MIN_RELEVANCE

AllPagesParse == \A n \in 1..pdf.numPages : pdf.page[n].ok
MeetsThreshold ==
  {n \in 1..pdf.numPages :
     PageParses(pdf, n) /\ pdf.page[n].relevance >= AskedMinRelevance}
TopScoring ==
  {n \in MeetsThreshold :
     \A m \in MeetsThreshold : pdf.page[n].relevance >= pdf.page[m].relevance}

(* the maxPages the search runs with: 20 when it is the chapter strategy's
   last fallback, else the request's (or the default) *)
SearchMaxPages ==
  IF calls = <<"chapters", "search">> THEN FALLBACK_MAX_PAGES ELSE AskedMaxPages

(* C2: when exactly one page p of an N-page document meets the relevance
   threshold and contextWindow = 2, the search strategy returns exactly the
   pages {p-2, ..., p+2} within [1, N], capped at maxPages. *)
C2_ContextWindowPages ==
  (/\ Done /\ calls = <<"search">>
   /\ AllPagesParse
   /\ AskedContextWindow = 2
   /\ Cardinality(MeetsThreshold) = 1)
  => LET p == CHOOSE n \in MeetsThreshold : TRUE
     IN PageNums(out) =
          Slice0(SortAsc({n \in (p - 2)..(p + 2) : n \in 1..pdf.numPages}),
                 AskedMaxPages)

(* C3: whenever at least one page meets the relevance threshold, the
   highest-scoring page is in the output of the search strategy, for every
   maxPages >= 1 and every contextWindow >= 0. *)
C3_TopPagePresent ==
  (/\ Done /\ calls = <<"search">>
   /\ AllPagesParse
   /\ MeetsThreshold # {}
   /\ AskedMaxPages >= 1)
  => \E n \in TopScoring : n \in Range(PageNums(out))

(* C10: the pages of the search strategy's output are in strictly ascending
   page-number order (no page twice, equal scores in page order), and there
   are at most the effective maxPages of them. *)
C10_SearchOrderAndCap ==
  (Done /\ Ran("search")) =>
    /\ Ascending(PageNums(out))
    /\ Len(PageBlocks(out)) <= SearchMaxPages
    /\ \A i \in DOMAIN out : out[i].type = "page"

(* two pages of equal score are returned in page order, and the cut to
   maxPages removed a page that met the threshold *)
C10_Witness ==
  /\ Done /\ calls = <<"search">>
  /\ Len(PageBlocks(out)) = AskedMaxPages
  /\ Cardinality(MeetsThreshold) > AskedMaxPages
  /\ \E i, j \in DOMAIN out :
       i < j /\ out[i].relevance = out[j].relevance /\ out[i].pageNum < out[j].pageNum
  /\ \E i, j \in DOMAIN out : out[i].relevance < out[j].relevance

----------------------------------------------------------------------------
(* Page budget and character budget over the strategies *)

(* C6: when maxPages is set, the returned text has at most maxPages page
   blocks, whichever strategy produced it. *)
C6_MaxPagesEveryStrategy ==
  (Done /\ Has(options, "maxPages") /\ options.maxPages >= 1)
  => Len(PageBlocks(out)) <= options.maxPages

(* C7: in smart-auto's section-grouped mode the pages extracted over all
   sections never exceed maxPages, also for sections whose endPage is smaller
   than their startPage. *)
C7_SectionsPageBudget ==
  Ran("sections") => Len(PageBlocks(out)) <= AskedMaxPages

(* C8: when maxCharacters is set and smart-auto runs, the extracted page
   content is at most maxCharacters long, on the section-grouped path as on
   the sequential path. *)
C8_SmartAutoCharBudget ==
  (Done /\ TopLevel = "smart" /\ Has(options, "maxCharacters")
        /\ options.maxCharacters >= 1)
  => SeqSum(Lens(PageBlocks(out))) <= options.maxCharacters

----------------------------------------------------------------------------
(* Explicit page range *)

(* C9: for a document of N pages and a range {start, end}, the page-range
   strategy returns exactly the pages of [max(1, start), min(end, N)] that
   parse, each once, in ascending order, each at relevance 1.0 and so without
   a relevance annotation. *)
C9_PageRangeExact ==
  (Done /\ TopLevel = "pageRange") =>
    LET lo == Max(1, options.pageRange.start)
        hi == Min(options.pageRange.end, pdf.numPages)
    IN /\ PageNums(out) = SortAsc({n \in lo..hi : pdf.page[n].ok})
       /\ \A i \in DOMAIN out :
            /\ out[i].type = "page"
            /\ out[i].relevance = RELEVANCE_ONE
            /\ ~out[i].annotated

(* {start: 0, end: 999} gives every page of the document; one page of the
   range fails to parse and is left out *)
C9_Witness ==
  /\ Done /\ TopLevel = "pageRange"
  /\ options.pageRange = [start |-> 0, end |-> 999]
  /\ pdf.numPages >= 3
  /\ PageNums(out) = SortAsc({n \in 1..pdf.numPages : pdf.page[n].ok})
  /\ Len(out) = pdf.numPages - 1

----------------------------------------------------------------------------
(* Relevance threshold *)

(* C11: in the search strategy a page is a ranking candidate exactly when it
   parses and its score is >= the minRelevanceScore of the request, the
   default 0.01 standing in only when the request has none; with
   minRelevanceScore 0 every page that parses is a candidate.  With maxPages
   not below the number of pages no candidate is cut, so the pages returned
   are the candidates. *)
C11_ThresholdAsSupplied ==
  (Done /\ calls = <<"search">> /\ SearchMaxPages >= pdf.numPages)
  => Range(PageNums(out)) = MeetsThreshold

----------------------------------------------------------------------------
(* The PDF cache and the facade *)

(* the adapter has not failed on its own account *)
AdapterSound == faultsLeft = MaxFaults

(* the cache key a call writes to, if it writes *)
WrittenKey(call) ==
  CASE call.op = "setWithKey" -> call.cacheKey
    [] call.op = "set" -> getCacheKey(call.file)
    [] call.op = "parseFile" -> getCacheKeyWithOptions(call.file, call.options)
    [] OTHER -> Null

(* the last call before the j-th that cleared the cache or wrote the key,
   0 when there is none *)
LastTouch(j, cacheKey) ==
  LET touches == {i \in 1..(j - 1) :
                    \/ log[i].call.op = "clear"
                    \/ WrittenKey(log[i].call) = cacheKey}
  IN IF touches = {} THEN 0
     ELSE CHOOSE i \in touches : \A m \in touches : m <= i

(* C12: setWithKey(key, entry) followed, with no clear and no set of that key
   in between, by getWithKey(key) returns a value deep-equal to entry;
   getWithKey of a key never set, or not set since the last clear, returns
   null. *)
C12_CacheRoundTrip ==
  AdapterSound =>
    \A j \in DOMAIN log :
      log[j].call.op = "getWithKey" =>
        LET i == LastTouch(j, log[j].call.cacheKey)
        IN IF i = 0 \/ log[i].call.op = "clear"
             THEN log[j].result = Null
             ELSE log[i].call.op = "setWithKey"
                    => log[j].result = log[i].call.entry

(* the last call before the j-th that cleared the cache or wrote one of the
   keys, 0 when there is none *)
LastTouchOf(j, cacheKeys) ==
  LET touches == {i \in 1..(j - 1) :
                    \/ log[i].call.op = "clear"
                    \/ WrittenKey(log[i].call) \in cacheKeys}
  IN IF touches = {} THEN 0
     ELSE CHOOSE i \in touches : \A m \in touches : m <= i

(* the two keys of a file: the one of PDFCache.get/set and the one of a
   parseFile without options *)
KeysOfFile(file) == {getCacheKey(file), getCacheKeyWithOptions(file, Undefined)}

(* C13: the key PDFParser.parseFile uses is the digest of
   path:size:mtime[:JSON(options)], and without options it is the key of
   PDFCache.get(file)/set(file): an entry stored with set(file, e) is a hit
   for a later parseFile(file) without options, and the entry written by a
   parseFile without options is what get(file) returns. *)
C13_SharedKey ==
  AdapterSound =>
    /\ \A p \in Procs :
         (proc[p].pc # "idle" /\ proc[p].call.op = "parseFile") =>
           /\ proc[p].cacheKey.hashed
           /\ NoKeys(proc[p].call.options)
                => proc[p].cacheKey = getCacheKey(proc[p].call.file)
    /\ \A j \in DOMAIN log :
         LET call == log[j].call
         IN /\ (call.op = "parseFile" /\ NoKeys(call.options)) =>
                 LET i == LastTouchOf(j, KeysOfFile(call.file))
                 IN (i > 0 /\ log[i].call.op = "set")
                      => log[j].result = log[i].call.entry.val.response
            /\ call.op = "get" =>
                 LET i == LastTouchOf(j, KeysOfFile(call.file))
                 IN (i > 0 /\ log[i].call.op = "parseFile"
                     /\ log[i].extracted)
                      => /\ log[j].result # Null
                         /\ log[j].result.val.response = log[i].result

(* two requests for the same processing of the same version of a file *)
SameRequest(call1, call2) ==
  /\ Metadata(call1.file) = Metadata(call2.file)
  /\ \/ NoKeys(call1.options) /\ NoKeys(call2.options)
     \/ call1.options = call2.options

ParseFileCalls == {j \in DOMAIN log : log[j].call.op = "parseFile"}
IsError(result) == result.kind = "pieces"

(* C14: two parseFile requests that differ in path, size, mtime or
   (non-empty) options have different cache keys; what was cached for one is
   never returned for the other, which is a miss and extracts afresh. *)
C14_SeparateKeys ==
  \A j \in ParseFileCalls :
    /\ \A i \in ParseFileCalls :
         ~SameRequest(log[i].call, log[j].call)
           => getCacheKeyWithOptions(log[i].call.file, log[i].call.options)
                # getCacheKeyWithOptions(log[j].call.file, log[j].call.options)
    /\ ~IsError(log[j].result) =>
         /\ log[j].result =
              ExtractedText(log[j].call.file,
                            getProcessingOptions(log[j].call.file.size,
                                                 log[j].call.options))
         /\ (\A i \in 1..(j - 1) :
               log[i].call.op = "parseFile"
                 => ~SameRequest(log[i].call, log[j].call))
              => log[j].extracted

(* the first request is cached, the second differs from it only in the size
   of the file and extracts again *)
C14_Witness ==
  /\ Len(log) = 2
  /\ ParseFileCalls = {1, 2}
  /\ log[1].call.file.path = log[2].call.file.path
  /\ log[1].call.file.mtime = log[2].call.file.mtime
  /\ log[1].call.options = log[2].call.options
  /\ log[1].call.file.size # log[2].call.file.size
  /\ log[1].extracted /\ log[2].extracted
  /\ log[1].result # log[2].result
  /\ Cardinality(DOMAIN files) = 2

(* the key a call reads the cache with *)
ReadKey(call) ==
  CASE call.op = "getWithKey" -> call.cacheKey
    [] call.op = "get" -> getCacheKey(call.file)
    [] OTHER -> Null

(* C15: clear() removes every entry: after sets with the keys of the facade,
   which may hold the folder of the document, and a clear that has returned,
   get and getWithKey return a miss until the next set. *)
C15_ClearRemovesAll ==
  AdapterSound =>
    \A j \in DOMAIN log :
      log[j].call.op \in {"get", "getWithKey"} =>
        LET i == LastTouchOf(j, {ReadKey(log[j].call)})
        IN (i > 0 /\ log[i].call.op = "clear") => log[j].result = Null

(* the text PDFParser.parseFile extracts for a call *)
FreshText(call) ==
  ExtractedText(call.file, getProcessingOptions(call.file.size, call.options))

(* C16: a failure of the adapter during a cache read is a miss, and the
   extraction goes on; a failure during a cache write, the making of the
   directory included, is swallowed, and parseFile returns the text it has
   just extracted. *)
C16_CacheFailuresSwallowed ==
  \A j \in DOMAIN log :
    LET call == log[j].call
    IN /\ (call.op = "parseFile" /\ "read" \in log[j].faulted
           /\ call.file.opens /\ "document" \notin log[j].faulted)
          => log[j].extracted /\ log[j].result = FreshText(call)
       /\ (call.op = "parseFile" /\ "write" \in log[j].faulted)
          => log[j].extracted /\ log[j].result = FreshText(call)
       /\ (call.op \in {"get", "getWithKey"} /\ "read" \in log[j].faulted)
          => log[j].result = Null

(* the cache directory is not there and the adapter fails while parseFile
   makes it *)
C16_Witness ==
  /\ faultsLeft < MaxFaults
  /\ cacheDir \notin dirs
  /\ \E j \in ParseFileCalls :
       /\ "write" \in log[j].faulted
       /\ log[j].result = FreshText(log[j].call)

(* `[Error: Could not extract content from PDF <name>. <reason>]`, the
   reason being the one pdf.js gave *)
IsOpenFailureString(result, file) ==
  /\ result.kind = "pieces"
  /\ Len(result.val) >= 5
  /\ result.val[1] = "[Error: Could not extract content from PDF "
  /\ result.val[2] = file.basename
  /\ result.val[3] = ". "
  /\ \E i \in 4..(Len(result.val) - 1) : result.val[i] = "Invalid PDF structure"
  /\ result.val[Len(result.val)] = "]"

(* C17: a file whose bytes cannot be opened never makes the facade throw:
   parseFile of PDFParser and of Docs4LLMParser both return the string
   `[Error: Could not extract content from PDF <name>. <reason>]` with the
   name of the file and the reason of the failure. *)
C17_OpenFailureString ==
  AdapterSound =>
    \A j \in DOMAIN log :
      LET call == log[j].call
      IN (/\ call.op \in {"parseFile", "projectParseFile"}
          /\ call.op = "projectParseFile" => call.project # Null
          /\ ~call.file.opens)
         => IsOpenFailureString(log[j].result, call.file)

----------------------------------------------------------------------------
(* Pages that fail *)

Parsed(lo, hi) == {n \in lo..hi : n \in 1..pdf.numPages /\ pdf.page[n].ok}

(* the page numbers of the page blocks that follow block i of the text, up
   to the next block that is no page *)
PagesAfter(i) ==
  LET stops == {j \in (i + 1)..Len(out) : out[j].type # "page"}
      end == IF stops = {} THEN Len(out) + 1
             ELSE CHOOSE j \in stops : \A k \in stops : j <= k
  IN [k \in 1..(end - i - 1) |-> out[i + k].pageNum]

(* the pages on which the scan for chapters finds a header that matches a
   requested name *)
ChapterHits ==
  {hit \in [pageNum : Parsed(1, Min(MAX_SCAN_PAGES, pdf.numPages)),
            title : Titles] :
     /\ \E h \in DOMAIN pdf.page[hit.pageNum].headers :
          pdf.page[hit.pageNum].headers[h].content = hit.title
     /\ \E c \in DOMAIN options.chapters :
          fuzzyMatch(hit.title, options.chapters[c])}

(* C18: a page that fails never aborts the extraction.  In the selective
   strategies the page is left out and every other page in scope is still
   processed: the page range returns every page of the range that parses,
   the sequential extraction every page within maxPages that parses unless
   the character budget stops it, the search every page that parses and
   meets the threshold when maxPages cuts none, the chapter scan the pages
   that parse of every window it finds.  The full-text parser renders the
   page as "--- Page N ---" with the error line, and every other page with
   text as it does otherwise. *)
C18_PageFailureIsLocal ==
  Done =>
    /\ TopLevel # "local" =>
         /\ \A i \in DOMAIN out :
              out[i].type = "page" => out[i].pageNum \in Parsed(1, pdf.numPages)
         /\ TopLevel = "pageRange" =>
              Range(PageNums(out)) =
                Parsed(Max(1, options.pageRange.start), options.pageRange.end)
         /\ (calls = <<"smart", "limits">> /\ ~stopped) =>
              Range(PageNums(out)) = Parsed(1, AskedMaxPages)
         /\ (calls = <<"search">> /\ SearchMaxPages >= pdf.numPages) =>
              Range(PageNums(out)) = MeetsThreshold
         /\ (calls = <<"chapters">> /\ pdf.outline = <<>>) =>
              \A hit \in ChapterHits :
                \E i \in DOMAIN out :
                  /\ out[i].type = "section"
                  /\ out[i].title = hit.title
                  /\ PagesAfter(i) =
                       SortAsc(Parsed(hit.pageNum, hit.pageNum + CHAPTER_LENGTH))
    /\ TopLevel = "local" =>
         /\ \A n \in 1..pdf.numPages :
              LET blocks == {i \in DOMAIN out : out[i].pageNum = n}
              IN IF ~pdf.page[n].ok
                   THEN \E i \in blocks :
                          blocks = {i} /\ out[i] = PageErrorBlock(n)
                 ELSE IF pdf.page[n].len > 0
                   THEN \E i \in blocks :
                          /\ blocks = {i}
                          /\ out[i] = LocalPageBlock(n, pdf.page[n].len)
                 ELSE blocks = {}
         /\ \A i, j \in DOMAIN out : i < j => out[i].pageNum < out[j].pageNum

(* the second of three pages fails: the full text has the first and the
   third page and the error line between them *)
C18_Witness ==
  /\ Done /\ TopLevel = "local"
  /\ pdf.numPages = 3
  /\ out = <<LocalPageBlock(1, 1), PageErrorBlock(2), LocalPageBlock(3, 1)>>

----------------------------------------------------------------------------
(* Chapters *)

(* a title matches a requested chapter name *)
NameMatches(title) ==
  \E c \in DOMAIN options.chapters :
    \/ fuzzyMatch(title, options.chapters[c])
    \/ Includes(ToLowerCase(title), ToLowerCase(options.chapters[c]))

NativeMatches ==
  {section \in Range(extractEnhancedOutline(pdf)) : NameMatches(section.title)}
DetectedOutlineMatches ==
  {section \in Range(detectSectionsFromText(pdf)) : NameMatches(section.title)}
ScanMatches ==
  {PDFSection(hit.title, hit.pageNum, hit.pageNum + CHAPTER_LENGTH) :
     hit \in ChapterHits}

(* the text is made of these sections: every title line is the title of one
   of them, followed by the pages of it that parse, and each of them has
   its title line *)
TextOfSections(sections) ==
  /\ out # <<>>
  /\ out[1].type = "section"
  /\ \A i \in DOMAIN out :
       out[i].type = "section" =>
         \E section \in sections :
           /\ out[i].title = section.title
           /\ PagesAfter(i) =
                SortAsc(Parsed(section.startPage, section.endPage))
  /\ \A section \in sections :
       \E i \in DOMAIN out :
         /\ out[i].type = "section"
         /\ out[i].title = section.title
         /\ PagesAfter(i) = SortAsc(Parsed(section.startPage, section.endPage))

DegradedToSearch ==
  /\ calls = <<"chapters", "search">>
  /\ args.maxPages = FALLBACK_MAX_PAGES
  /\ args.chapters = options.chapters

(* C19, as claimed: the names are matched against the native outline, then
   against the outline detected from header sections; only if neither
   matches are min(50, numPages) pages scanned for headers that fuzzy-match
   a name, each hit a section startPage..startPage+10; only if the scan
   finds nothing is the request a search with maxPages = 20.  A later step
   runs only when every earlier one gave no match. *)
C19_FallbackOrderClaimed ==
  (Done /\ TopLevel = "chapters") =>
    IF NativeMatches # {}
      THEN calls = <<"chapters">> /\ TextOfSections(NativeMatches)
    ELSE IF DetectedOutlineMatches # {}
      THEN calls = <<"chapters">> /\ TextOfSections(DetectedOutlineMatches)
    ELSE IF ScanMatches # {}
      THEN calls = <<"chapters">> /\ TextOfSections(ScanMatches)
    ELSE DegradedToSearch

(* C19, amended: the names are matched against the native outline; only if
   it has no match are min(50, numPages) pages scanned for headers that
   fuzzy-match a name, each hit a section startPage..startPage+10; only if
   the scan finds nothing is the request a search with maxPages = 20.  The
   outline detected from header sections is not asked. *)
C19_FallbackOrder ==
  (Done /\ TopLevel = "chapters") =>
    IF NativeMatches # {}
      THEN calls = <<"chapters">> /\ TextOfSections(NativeMatches)
    ELSE IF ScanMatches # {}
      THEN calls = <<"chapters">> /\ TextOfSections(ScanMatches)
    ELSE DegradedToSearch

(* the native outline has an entry, but none for the requested name; the
   scan finds the header on page 2 of a document with a later numbered
   header, and the section runs to the end of the document *)
C19_Witness ==
  /\ Done /\ calls = <<"chapters">>
  /\ pdf.outline # <<>>
  /\ NativeMatches = {}
  /\ pdf.numPages = 4
  /\ ScanMatches = {PDFSection(<<"A", "b", "c">>, 2, 2 + CHAPTER_LENGTH),
                    PDFSection(<<"A", "b", "c">>, 4, 4 + CHAPTER_LENGTH)}
  /\ AllPagesParse
  /\ PageNums(out) = <<2, 3, 4, 4>>

----------------------------------------------------------------------------
(* Embed options *)

OptionNames ==
  {"pageRange", "searchTerms", "chapters", "maxPages", "maxCharacters"}

(* C20: for every option string, unknown keys leave the options as they
   are and a malformed value leaves its option unset: "max:abc" and
   "chars:abc" set no maxPages and no maxCharacters, "search" and "chapter"
   without ":value" set no searchTerms and no chapters, "pages" without a
   value or with one that is no "S-E" sets no pageRange, and no error is
   raised.  So every option that is set has a value of its kind. *)
C20_MalformedLeftUnset ==
  embedOptions # Null =>
    /\ embedOptions.kind = "object"
    /\ DOMAIN embedOptions.val \subseteq OptionNames
    /\ \A k \in DOMAIN embedOptions.val :
         LET v == embedOptions.val[k]
         IN CASE k \in {"maxPages", "maxCharacters"} -> v.kind = "number"
              [] k \in {"searchTerms", "chapters"} ->
                   /\ v.kind = "array"
                   /\ \A i \in DOMAIN v.val : v.val[i].kind = "string"
              [] k = "pageRange" ->
                   /\ v.val.start.kind = "number"
                   /\ v.val.end.kind = "number"

----------------------------------------------------------------------------
(* Limits by file size *)

(* the options the size of a file asks for: above 50MB the large limits,
   from 10MB on the medium limits, below 10MB none *)
LimitsBySize(fileSize) ==
  IF fileSize > LARGE_FILE_MB * BYTES_PER_MB
    THEN Obj([maxPages |-> Num(LARGE_FILE_MAX_PAGES),
              maxCharacters |-> Num(LARGE_FILE_MAX_CHARACTERS)])
  ELSE IF fileSize >= MEDIUM_FILE_MB * BYTES_PER_MB
    THEN Obj([maxPages |-> Num(MEDIUM_FILE_MAX_PAGES),
              maxCharacters |-> Num(MEDIUM_FILE_MAX_CHARACTERS)])
  ELSE Obj(<<>>)

(* C21: a parseFile without user options extracts a PDF larger than 50MB
   with maxPages 20 and maxCharacters 50000, a PDF of 10MB to 50MB (exactly
   10MB included) with maxPages 50 and maxCharacters 100000, and a smaller
   PDF with no limits; with any user option it extracts with the user's
   options as they are. *)
C21_SizeLimits ==
  \A i \in DOMAIN log :
    (log[i].call.op = "parseFile" /\ log[i].result.kind = "text") =>
      log[i].result.val.with =
        IF NoKeys(log[i].call.options)
          THEN LimitsBySize(log[i].call.file.size)
          ELSE log[i].call.options

----------------------------------------------------------------------------
(* Documents without text *)

(* every page of the document parses and has no text on it *)
Textless(doc) ==
  /\ doc.numPages >= 1
  /\ \A n \in 1..doc.numPages : doc.page[n] = Page(0, 0, <<>>)

(* C22: a PDF in which no page has any text is answered with the notice
   "[No text content found in PDF ...]" by the full-text parser and by
   every selective strategy, never with an empty string or bare headers. *)
C22_NoTextNotice ==
  (Done /\ Textless(pdf)) => out = <<NoTextBlock>>

----------------------------------------------------------------------------
(* String comparison *)

(* s in lower case without the blanks around it *)
Normalised(s) ==
  LET inked == {i \in DOMAIN s : s[i] # " "}
      first == CHOOSE i \in inked : \A k \in inked : i <= k
      last == CHOOSE i \in inked : \A k \in inked : i >= k
  IN IF inked = {} THEN <<>>
     ELSE [i \in 1..(last - first + 1) |-> LowerOf(s[first + i - 1])]

(* t occurs in s at some place *)
Contains(s, t) ==
  \E at \in 0..Len(s) :
    /\ at + Len(t) <= Len(s)
    /\ \A k \in DOMAIN t : s[at + k] = t[k]

(* the strings one insertion, deletion or substitution of a letter away
   from s, none longer than most *)
OneEdit(s, letters, most) ==
  {SubSeq(s, 1, i - 1) \o SubSeq(s, i + 1, Len(s)) : i \in DOMAIN s}
  \cup {[s EXCEPT ![i] = c] : i \in DOMAIN s, c \in letters}
  \cup IF Len(s) >= most THEN {}
       ELSE {SubSeq(s, 1, i) \o <<c>> \o SubSeq(s, i + 1, Len(s)) :
               i \in 0..Len(s), c \in letters}

(* the number of rounds of edits after which t is among the strings
   reached, k rounds having led to reached *)
RECURSIVE RoundsTo(_, _, _, _, _)
RoundsTo(t, reached, k, letters, most) ==
  IF t \in reached THEN k
  ELSE RoundsTo(t, UNION {{x} \cup OneEdit(x, letters, most) : x \in reached},
                k + 1, letters, most)

(* the least number of single-character insertions, deletions and
   substitutions that turn s into t *)
MinEdits(s, t) ==
  RoundsTo(t, {s}, 0, Range(s) \cup Range(t), Max(Len(s), Len(t)))

(* the pairs of short strings of letters "a" and "b", whose edits are
   counted one by one *)
MaxEditLen == MaxStringLen + 2
Countable(s, t) ==
  /\ Len(s) <= MaxEditLen
  /\ Len(t) <= MaxEditLen
  /\ Range(s) \cup Range(t) \subseteq {"a", "b"}

(* C23: fuzzyMatch(a, b) at threshold 0.6 is true exactly when, in lower
   case and trimmed, one string contains the other or
   1 - editDistance / max length >= 0.6; it gives the same answer with its
   arguments swapped, it has an answer for every pair, the empty strings
   included, and "Chapter 1: Overview" matches "chapter 1". *)
C23_FuzzyMatch ==
  matched # {} =>
    LET a == Normalised(string1)
        b == Normalised(string2)
        most == Max(Len(a), Len(b))
    IN /\ matched \in {{TRUE}, {FALSE}}
       /\ Countable(a, b) =>
            matched = {\/ Contains(a, b)
                       \/ Contains(b, a)
                       \/ most > 0 /\ 5 * (most - MinEdits(a, b)) >= 3 * most}
       /\ matched = {fuzzyMatch(string2, string1)}
       /\ (string1 = ChapterTitle /\ string2 = ChapterName) => matched = {TRUE}

(* two strings of which neither contains the other, two edits in five
   letters apart: the similarity is 0.6 and they match *)
C23_Witness ==
  /\ matched = {TRUE}
  /\ Len(Normalised(string1)) = 5
  /\ Len(Normalised(string2)) = 5
  /\ MinEdits(Normalised(string1), Normalised(string2)) = 2


(* C24: levenshteinDistance(s, t) is the least number of single-character
   insertions, deletions and substitutions that turn s into t, the empty
   strings included; the distance of a string to itself is 0, the distance
   is the same in both directions, and "kitten" is 3 from "sitting".  (The
   long title of the chapter example is measured in one direction only.) *)
C24_Levenshtein ==
  measured # {} =>
    /\ Countable(string1, string2) =>
         measured = {MinEdits(string1, string2)}
    /\ string1 = string2 => measured = {0}
    /\ string1 # ChapterTitle =>
         measured = {levenshteinDistance(string2, string1)}
    /\ (string1 = Kitten /\ string2 = Sitting) => measured = {3}

(* the example of the claim has been measured *)
C24_Witness ==
  /\ measured = {3}
  /\ string1 = Kitten
  /\ string2 = Sitting

----------------------------------------------------------------------------
(* Section boundaries *)

(* the items with text, and the one before item k among them *)
Inked(its) == {k \in DOMAIN its : its[k].str # <<>>}
Before(its, k) ==
  CHOOSE j \in Inked(its) : j < k /\ \A m \in Inked(its) : m < k => m <= j

(* the items at which a section starts: the first one, and every one whose
   type is not that of the item before it, or that lies more than 20 units
   below or above it, or more than 50 units beside it *)
SectionStarts(its) ==
  {k \in Inked(its) :
     \/ \A j \in Inked(its) : j >= k
     \/ LET j == Before(its, k)
        IN \/ detectSectionType(its[k]) # detectSectionType(its[j])
           \/ Abs(its[k].y - its[j].y) > NEW_SECTION_Y_GAP
           \/ Abs(its[k].x - its[j].x) > NEW_SECTION_X_GAP}

(* the sections these starts cut the items into: type and words *)
SectionsBetweenStarts(its) ==
  LET starts == SortAsc(SectionStarts(its))
      members(n) ==
        SortAsc({k \in Inked(its) :
                   /\ k >= starts[n]
                   /\ n < Len(starts) => k < starts[n + 1]})
  IN [n \in DOMAIN starts |->
        [type |-> detectSectionType(its[starts[n]]),
         content |-> Flatten([m \in DOMAIN members(n) |->
                                its[members(n)[m]].str])]]

(* C27: parseTextStructure starts a section at an item with text exactly
   when there is no current section, or the type of the item is not that of
   the current section, or the item lies more than 20 units from the item
   before it vertically or more than 50 units horizontally; items of one
   type each within 20 and 50 units of the item before them are joined
   into one section. *)
C27_SectionBoundaries ==
  \A made \in textSections :
    [n \in DOMAIN made |-> [type |-> made[n].type, content |-> made[n].content]]
      = SectionsBetweenStarts(textItems)

----------------------------------------------------------------------------
(* Concurrent requests *)

(* every client has made its calls and has its answers *)
AllReturned ==
  \A p \in Procs : todo[p] = <<>> /\ proc[p].pc = "idle"

(* the entry parseFile writes for a request *)
EntryOf(call) ==
  LET finalOptions == getProcessingOptions(call.file.size, call.options)
  IN Obj([response |-> ExtractedText(call.file, finalOptions),
          elapsed_time_ms |-> Num(0),
          options |-> finalOptions])

(* C25: two concurrent parseFile requests for the same key on a cache
   without that key both return an extraction result, whatever the order of
   their cache reads, extractions and cache writes, and once both have
   finished the cache holds for the key the complete entry of the last
   write, never a missing or mixed one. *)
C25_ConcurrentMisses ==
  (AllReturned /\ Len(log) = 2 /\ log[1].call.op = "parseFile") =>
    LET call == log[1].call
        cachePath == getCachePath(getCacheKeyWithOptions(call.file,
                                                         call.options))
    IN /\ \A i \in DOMAIN log : log[i].result = EntryOf(call).val.response
       /\ Exists(cachePath)
       /\ files[cachePath] = JSONstringify(EntryOf(call))


(* C26: two concurrent cache writes on a cache whose directory does not exist
   yet both persist their entries in every interleaving of their existence
   checks, mkdir calls and writes: once both have finished, the blob of each
   key is there and holds an entry written for that key. *)
C26_DirectoryRace ==
  (/\ AllReturned
   /\ Len(log) = 2
   /\ \A i \in DOMAIN log : /\ log[i].call.op = "setWithKey"
                            /\ KeyFolders(log[i].call.cacheKey) = <<>>) =>
    \A i \in DOMAIN log :
      LET cachePath == getCachePath(log[i].call.cacheKey)
      IN /\ Exists(cachePath)
         /\ \E j \in DOMAIN log :
              /\ log[j].call.cacheKey = log[i].call.cacheKey
              /\ files[cachePath] = JSONstringify(log[j].call.entry)


(* ------------------------------------------------------------------ *)
(* Failed extractions                                                  *)
(* ------------------------------------------------------------------ *)

(* the run holds parseFile requests only *)
OnlyParseFile ==
  /\ \A j \in DOMAIN log : log[j].call.op = "parseFile"
  /\ \A p \in Procs :
       /\ \A i \in DOMAIN todo[p] : todo[p][i].op = "parseFile"
       /\ proc[p].pc # "idle" => proc[p].call.op = "parseFile"

(* the requests whose extraction went through *)
Extracted ==
  {log[j].call : j \in {i \in DOMAIN log : /\ log[i].extracted
                                           /\ ~IsError(log[i].result)}}
  \cup {proc[p].call : p \in {q \in Procs : /\ proc[q].pc # "idle"
                                            /\ proc[q].extracted}}

SameKey(call1, call2) ==
  getCacheKeyWithOptions(call1.file, call1.options)
    = getCacheKeyWithOptions(call2.file, call2.options)

(* C28: a parseFile that returns an [Error: ...] string, because reading or
   opening the document or the strategy threw, leaves the cache as it was:
   every blob in the cache is the entry of a request whose extraction went
   through, and a later parseFile with the key of a failed one is a miss
   again, which extracts afresh or fails again. *)
C28_FailureNotCached ==
  OnlyParseFile =>
    /\ \A cachePath \in DOMAIN files :
         \E call \in Extracted :
           /\ cachePath = getCachePath(getCacheKeyWithOptions(call.file,
                                                              call.options))
           /\ files[cachePath] = JSONstringify(EntryOf(call))
    /\ \A i \in DOMAIN log : \A j \in DOMAIN log :
         (/\ i < j
          /\ IsError(log[i].result)
          /\ SameKey(log[i].call, log[j].call)
          /\ \A k \in (i + 1)..(j - 1) : IsError(log[k].result)) =>
           \/ IsError(log[j].result)
           \/ /\ log[j].extracted
              /\ log[j].result = EntryOf(log[j].call).val.response

(* a request failed, and the same request made again extracted the text *)
C28_Witness ==
  /\ OnlyParseFile
  /\ Len(log) = 2
  /\ SameKey(log[1].call, log[2].call)
  /\ IsError(log[1].result)
  /\ log[2].extracted
  /\ ~IsError(log[2].result)
  /\ files # <<>>


(* ------------------------------------------------------------------ *)
(* The per-project cache                                               *)
(* ------------------------------------------------------------------ *)

ProjectParseFileCalls ==
  {j \in DOMAIN log : log[j].call.op = "projectParseFile"}

SameProjectKey(call1, call2) ==
  /\ call1.project = call2.project
  /\ ProjectCacheKey(call1.file, call1.options)
       = ProjectCacheKey(call2.file, call2.options)

(* C29: once Docs4LLMParser.parseFile has extracted and stored the text for
   a (project, file, options) key, every later parseFile with the same
   project and key returns the stored text without reading or extracting the
   document again, whatever the text is, the empty string included. *)
C29_ProjectCacheHit ==
  \A i \in ProjectParseFileCalls : \A j \in ProjectParseFileCalls :
    (/\ i < j
     /\ log[i].extracted
     /\ SameProjectKey(log[i].call, log[j].call)) =>
      /\ log[j].result = log[i].result
      /\ ~log[j].extracted
      /\ log[j].faulted = {}


(* ------------------------------------------------------------------ *)
(* The chat context                                                    *)
(* ------------------------------------------------------------------ *)

(* C30: whatever the interleaving of addNoteToContext calls, the list
   contextNotes holds at most one entry per note path. *)
C30_NoDuplicateNotes ==
  \A i \in DOMAIN contextNotes : \A j \in DOMAIN contextNotes :
    contextNotes[i].path = contextNotes[j].path => i = j

====
